---------------------------- MODULE Spec2Model ----------------------------
(* A model of the code-push management SDK: the AccountManager facade      *)
(* (src/src/script/management-sdk.ts, which holds two definitions of the   *)
(* class), the Adapter (src/src/utils/adapter/adapter.ts) and the          *)
(* RequestManager (src/src/utils/request-manager.ts).                      *)
(*                                                                         *)
(* Strings are sequences of one-character tokens; a request path is the    *)
(* sequence of tokens of the URL, "/" being the path separator and "%2F"   *)
(* an encoded slash.  One facade operation runs at a time; every await of  *)
(* the code is one step: the request is issued and the backend's answer,   *)
(* chosen freely, is received.                                             *)
EXTENDS Integers, Sequences, FiniteSets, TLC

VARIABLES
    variant,    \* which definition of class AccountManager is in use: 1 (lines 36-393) or 2 (lines 431-828)
    op,         \* the facade call in progress: its name and arguments
    pc,         \* the position of the call: the await it is suspended at
    user,       \* the UserProfile returned by the last successful GET /user of the call
    params,     \* the {appOwner, appName} returned by Adapter.parseApiAppName
    log,        \* the requests, uploads and archive creations of the call, oldest first, each with its outcome
    result,     \* the settlement of the call's promise (or the synchronous throw)
    packageFile, \* the PackageFile of release, and whether the file at its path exists
    mapping,    \* a call of a mapping function of the Adapter on its own: the function, its argument, what it returned
    accessKey   \* the accessKey the constructor of the manager was last called with

vars == <<variant, op, pc, user, params, log, result, packageFile, mapping, accessKey>>

-----------------------------------------------------------------------------
(* Bounds of the model *)

MaxLen == 5          \* longest app identifier

(* Program constants *)

ERROR_GATEWAY_TIMEOUT == 504
ERROR_INTERNAL_SERVER == 500
ERROR_NOT_FOUND == 404
ERROR_CONFLICT == 409
ERROR_UNAUTHORIZED == 401

-----------------------------------------------------------------------------
(* Input domains *)

Chars == {"a", "/"}

RECURSIVE SeqsUpTo(_, _)
SeqsUpTo(S, n) ==
    IF n = 0 THEN {<< >>}
    ELSE LET shorter == SeqsUpTo(S, n - 1)
         IN  shorter \cup {Append(s, c) : s \in {t \in shorter : Len(t) = n - 1}, c \in S}

Identifiers == SeqsUpTo(Chars, MaxLen) \ {<< >>}

UserNames == {<<"u">>, <<"a">>}
Messages == {"Unauthorized", "Text"}
ErrorStatuses == {ERROR_UNAUTHORIZED, ERROR_NOT_FOUND, ERROR_INTERNAL_SERVER}
OsValues == {"iOS", "PalmOS"}
PlatformValues == {"Cordova", "Flash"}
Flags == {"omitted", "false", "true"}

Undefined == "undefined"

-----------------------------------------------------------------------------
(* String helpers of the JavaScript runtime, over sequences of tokens *)

\* String.prototype.includes
Includes(s, c) == \E i \in 1..Len(s) : s[i] = c

\* String.prototype.indexOf: 0-based, -1 when absent
IndexOf(s, c) ==
    IF Includes(s, c)
    THEN (CHOOSE i \in 1..Len(s) : s[i] = c /\ \A j \in 1..(i - 1) : s[j] # c) - 1
    ELSE -1

\* String.prototype.substring(from) and substring(from, to), 0-based
SubstringFrom(s, from) == SubSeq(s, from + 1, Len(s))
SubstringTo(s, from, to) == SubSeq(s, from + 1, to)

\* String.prototype.split(c): every piece between separators
RECURSIVE Split(_, _)
Split(s, c) ==
    IF ~Includes(s, c) THEN <<s>>
    ELSE LET i == IndexOf(s, c)
         IN  <<SubstringTo(s, 0, i)>> \o Split(SubstringFrom(s, i + 1), c)

\* String.prototype.replace(c, r) with a string pattern: the first occurrence only
ReplaceFirst(s, c, r) ==
    IF ~Includes(s, c) THEN s
    ELSE LET i == IndexOf(s, c)
         IN  SubstringTo(s, 0, i) \o r \o SubstringFrom(s, i + 1)

\* encodeURIComponent on the model's alphabet: "/" is escaped, letters and "~" are not
RECURSIVE encodeURIComponent(_)
encodeURIComponent(s) ==
    IF s = << >> THEN << >>
    ELSE <<IF Head(s) = "/" THEN "%2F" ELSE Head(s)>> \o encodeURIComponent(Tail(s))

\* the path segments a server routes on: the pieces between "/" separators
Segments(path) == Split(path, "/")

\* a segment as the server decodes it
RECURSIVE Decode(_)
Decode(s) ==
    IF s = << >> THEN << >>
    ELSE <<IF Head(s) = "%2F" THEN "/" ELSE Head(s)>> \o Decode(Tail(s))

-----------------------------------------------------------------------------
(* RequestManager *)

NoError == [message |-> "", statusCode |-> 0]
ParseError == [message |-> "Could not parse response", statusCode |-> ERROR_INTERNAL_SERVER]
TypeError == [message |-> "TypeError", statusCode |-> 0]

\* What superagent hands to the callback of request.end: err (with or without a
\* status), or a response with its ok flag, its status, the message it carries,
\* for /user the profile's name, and what JSON.parse(res.text) gives: body is
\* "undefined" when the text does not parse, "null" when the text is null (a
\* JSON value that is falsy), "object" otherwise.
Responses ==
    {[err |-> TRUE, ok |-> FALSE, status |-> s, body |-> "undefined", msg |-> m, name |-> << >>] :
        s \in {0} \cup ErrorStatuses, m \in Messages}
    \cup {[err |-> FALSE, ok |-> TRUE, status |-> 200, body |-> b, msg |-> "", name |-> n] :
        b \in {"undefined", "null", "object"}, n \in UserNames}
    \cup {[err |-> FALSE, ok |-> FALSE, status |-> s, body |-> b, msg |-> m, name |-> << >>] :
        s \in ErrorStatuses, b \in {"undefined", "object"}, m \in Messages}

\* (error && error.status) || (response && response.status) || ERROR_GATEWAY_TIMEOUT
getErrorStatus(res) == IF res.status # 0 THEN res.status ELSE ERROR_GATEWAY_TIMEOUT

\* getCodePushError reporting every failure as an internal server error
getCodePushError_InternalError(res) ==
    [message |-> res.msg, statusCode |-> ERROR_INTERNAL_SERVER]

\* {message: getErrorMessage(error, response), statusCode: getErrorStatus(error, response)}
getCodePushError(res) == [message |-> res.msg, statusCode |-> getErrorStatus(res)]

\* The settlement of the promise of makeApiRequest: resolved with {headers, body}
\* (hasBody: the body is truthy) or rejected with a CodePushError; on a 2xx
\* response the test is expectResponseBody && !body.
makeApiRequest(expectResponseBody, res) ==
    IF res.err
    THEN [ok |-> FALSE, hasBody |-> FALSE, error |-> getCodePushError(res)]
    ELSE IF res.ok
         THEN IF expectResponseBody /\ res.body # "object"
              THEN [ok |-> FALSE, hasBody |-> FALSE, error |-> ParseError]
              ELSE [ok |-> TRUE, hasBody |-> res.body = "object", error |-> NoError]
         ELSE [ok |-> FALSE, hasBody |-> FALSE,
               error |-> [message |-> res.msg, statusCode |-> getErrorStatus(res)]]

\* get(endpoint, expectResponseBody = true), post(endpoint, body, expect),
\* patch(endpoint, body, expect = false), del(endpoint, expect = false); the body
\* is kept only where requests to one path differ by it
Req(method, path, expectResponseBody) ==
    [method |-> method, path |-> path, expect |-> expectResponseBody, body |-> ""]

\* the log entry of a request: what was sent, the status and the message of the
\* answer (status 0: no answer, a network error) and the settlement of the promise
Entry(req, res, out) ==
    [method |-> req.method, path |-> req.path, body |-> req.body, status |-> res.status,
     msg |-> res.msg, ok |-> out.ok, error |-> out.error]

-----------------------------------------------------------------------------
(* Paths *)

DeploymentName == <<"d">>
OtherDeploymentName == <<"e">>
Label == <<"l">>
Email == <<"m">>
OrgName == <<"o">>

UserPath == <<"/", "user">>

\* `/apps/${appOwner}/${appName}` with the two values as given
AppPath(appOwner, appName) == <<"/", "apps", "/">> \o appOwner \o <<"/">> \o appName

\* urlEncode`/apps/${appOwner}/${appName}`
EncodedAppPath(appOwner, appName) ==
    AppPath(encodeURIComponent(appOwner), encodeURIComponent(appName))

\* AccountManager.appNameParam
appNameParam(appName) == ReplaceFirst(appName, "/", <<"~", "~">>)

\* urlEncode`/apps/${this.appNameParam(appName)}`
LegacyAppPath(appName) == <<"/", "apps", "/">> \o encodeURIComponent(appNameParam(appName))

-----------------------------------------------------------------------------
(* Adapter: the name resolver *)

\* parseApiAppName with the unqualified branch returning the identifier as the owner
parseApiAppName_OwnerIsName(apiAppName, callingUserName) ==
    IF ~Includes(apiAppName, "/")
    THEN [set |-> TRUE, appOwner |-> apiAppName, appName |-> apiAppName]
    ELSE LET pieces == Split(apiAppName, "/")
         IN  [set |-> TRUE, appOwner |-> pieces[1], appName |-> pieces[2]]

\* Adapter.parseApiAppName after its getUser: the split of the identifier.
\* const [appOwner, appName] = apiAppName.split("/") keeps the first two pieces.
parseApiAppName(apiAppName, callingUserName) ==
    IF ~Includes(apiAppName, "/")
    THEN [set |-> TRUE, appOwner |-> callingUserName, appName |-> apiAppName]
    ELSE LET pieces == Split(apiAppName, "/")
         IN  [set |-> TRUE, appOwner |-> pieces[1], appName |-> pieces[2]]

NoParams == [set |-> FALSE, appOwner |-> << >>, appName |-> << >>]
NoUser == [known |-> FALSE, name |-> << >>]

-----------------------------------------------------------------------------
(* AccountManager: the operations and the requests they build *)

\* operations of both class definitions whose first await is parseApiAppName
CommonResolverOps ==
    {"getApp", "removeApp", "renameApp", "addDeployment", "clearDeploymentHistory",
     "getDeployments", "getDeployment", "renameDeployment", "removeDeployment",
     "getDeploymentHistory"}

\* operations that resolve the name in the first definition and use appNameParam in the second
MigratedOps ==
    {"transferApp", "getCollaborators", "addCollaborator", "removeCollaborator",
     "getDeploymentMetrics"}

\* operations that address the app through appNameParam in both definitions
ReleaseOps == {"patchRelease", "promote", "rollback"}

DeprecatedOps == {"getAccessKey", "getSessions", "patchAccessKey", "removeSession"}

ResolverOps(v) == IF v = 1 THEN CommonResolverOps \cup MigratedOps ELSE CommonResolverOps
LegacyOps(v) == IF v = 1 THEN ReleaseOps ELSE ReleaseOps \cup MigratedOps

\* operations that take an app identifier
AppOps == CommonResolverOps \cup MigratedOps \cup ReleaseOps \cup {"addApp", "release"}

OpNames(v) ==
    CommonResolverOps \cup MigratedOps \cup ReleaseOps \cup DeprecatedOps
        \cup {"isAuthenticated", "addApp"} \cup (IF v = 1 THEN {"release"} ELSE {})

\* The request an operation sends once parseApiAppName returned {appOwner, appName}.
ResolvedRequest(name, appOwner, appName) ==
    LET app == EncodedAppPath(appOwner, appName)
        deployments == app \o <<"/", "deployments", "/">>
    IN  CASE name = "getApp" -> Req("get", app, TRUE)
          [] name = "removeApp" -> Req("del", app, FALSE)
          [] name = "renameApp" -> Req("patch", app, FALSE)
          [] name = "transferApp" ->
                Req("post", app \o <<"/", "transfer", "/">> \o encodeURIComponent(OrgName), FALSE)
          [] name = "getCollaborators" -> Req("get", app \o <<"/", "users">>, TRUE)
          [] name = "addCollaborator" -> Req("post", app \o <<"/", "invitations">>, FALSE)
          [] name = "removeCollaborator" ->
                Req("del", app \o <<"/", "invitations", "/">> \o encodeURIComponent(Email), FALSE)
          [] name = "addDeployment" -> Req("post", deployments, TRUE)
          [] name = "clearDeploymentHistory" ->
                Req("del", deployments \o encodeURIComponent(DeploymentName) \o <<"/", "releases">>, FALSE)
          [] name = "getDeployments" -> Req("get", deployments, TRUE)
          [] name = "getDeployment" ->
                Req("get", deployments \o encodeURIComponent(DeploymentName), TRUE)
          [] name = "renameDeployment" ->
                Req("patch", deployments \o encodeURIComponent(DeploymentName), FALSE)
          [] name = "removeDeployment" ->
                Req("del", deployments \o encodeURIComponent(DeploymentName), FALSE)
          [] name = "getDeploymentMetrics" ->
                Req("get", deployments \o encodeURIComponent(DeploymentName) \o <<"/", "metrics">>, TRUE)
          [] name = "getDeploymentHistory" ->
                Req("get", deployments \o encodeURIComponent(DeploymentName) \o <<"/", "releases">>, TRUE)

\* The request of an operation that addresses the app through appNameParam.
LegacyRequest(name, appName) ==
    LET app == LegacyAppPath(appName)
        deployment == app \o <<"/", "deployments", "/">> \o encodeURIComponent(DeploymentName)
    IN  CASE name = "patchRelease" -> Req("patch", deployment \o <<"/", "release">>, FALSE)
          [] name = "promote" ->
                Req("post", deployment \o <<"/", "promote", "/">> \o encodeURIComponent(OtherDeploymentName), TRUE)
          [] name = "rollback" ->
                Req("post", deployment \o <<"/", "rollback", "/">> \o encodeURIComponent(Label), FALSE)
          [] name = "transferApp" ->
                Req("post", app \o <<"/", "transfer", "/">> \o encodeURIComponent(Email), FALSE)
          [] name = "getCollaborators" -> Req("get", app \o <<"/", "collaborators">>, TRUE)
          [] name = "addCollaborator" ->
                Req("post", app \o <<"/", "collaborators", "/">> \o encodeURIComponent(Email), FALSE)
          [] name = "removeCollaborator" ->
                Req("del", app \o <<"/", "collaborators", "/">> \o encodeURIComponent(Email), FALSE)
          [] name = "getDeploymentMetrics" -> Req("get", deployment \o <<"/", "metrics">>, TRUE)

\* The request of a deprecated operation in the second class definition.
DeprecatedRequest(name, arg) ==
    CASE name = "getAccessKey" -> Req("get", <<"/", "accessKeys", "/">> \o encodeURIComponent(arg), TRUE)
      [] name = "getSessions" -> Req("get", <<"/", "accessKeys">>, TRUE)
      [] name = "patchAccessKey" -> Req("patch", <<"/", "accessKeys", "/">> \o encodeURIComponent(arg), FALSE)
      [] name = "removeSession" -> Req("del", <<"/", "sessions", "/">> \o encodeURIComponent(arg), FALSE)

-----------------------------------------------------------------------------
(* Settlements *)

Pending == [kind |-> "pending", value |-> Undefined, error |-> NoError]
Resolved(v) == [kind |-> "resolved", value |-> v, error |-> NoError]
Rejected(e) == [kind |-> "rejected", value |-> Undefined, error |-> e]
Thrown(e) == [kind |-> "thrown", value |-> Undefined, error |-> e]

Idle == [name |-> "idle", app |-> << >>, flag |-> "omitted", os |-> "", platform |-> "",
         newName |-> << >>, dir |-> FALSE]

NoPackageFile == [set |-> FALSE, isTemporary |-> FALSE, exists |-> FALSE]

NoMapping == [fn |-> "none", arg |-> << >>, returned |-> << >>]

\* the value an operation resolves with: null for the operations that return
\* nothing, the mapped response body for the others
ResultValue(name) ==
    IF name \in {"removeApp", "renameApp", "transferApp", "addCollaborator", "removeCollaborator",
                 "clearDeploymentHistory", "renameDeployment", "removeDeployment",
                 "patchRelease", "rollback", "removeSession"}
    THEN "null"
    ELSE "mapped"

\* the await an operation reaches first
FirstPc(v, name) ==
    CASE name \in ResolverOps(v) -> "parseApiAppName"
      [] name \in LegacyOps(v) -> "legacyRequest"
      [] name \in DeprecatedOps -> "deprecated"
      [] name = "isAuthenticated" -> "isAuthenticated"
      [] name = "addApp" -> "addApp"
      [] name = "release" -> "packageFileFromPath"

\* the step that follows parseApiAppName
AfterParse(name) ==
    CASE name = "addApp" -> "addStandardDeployments"
      [] name = "renameApp" -> "getRenamedApp"
      [] OTHER -> "request"

NewNames == {<<"b">>, <<"b", "/", "a">>, <<"b", "$">>, << >>}

-----------------------------------------------------------------------------
(* The constructors *)

\* the accessKey argument: undefined, the empty string or a key
AccessKeys == {Undefined, "", "key"}

\* the constructor has not been called
NotCalled == "not called"

\* MissingKey taking the empty string for a key
MissingKey_UndefinedOnly(key) == key = Undefined

\* !accessKey
MissingKey(key) == key \in {Undefined, ""}

\* new RequestManager(accessKey, ...) throws
RequestManagerThrows(key) == MissingKey(key)

\* new CodePushUnauthorizedError("A token must be specified.")
CodePushUnauthorizedError ==
    [message |-> "A token must be specified.", statusCode |-> ERROR_UNAUTHORIZED]

-----------------------------------------------------------------------------
(* The state machine *)

\* no manager has been constructed
Init ==
    /\ variant \in {1, 2}
    /\ op = Idle
    /\ pc = "new"
    /\ user = NoUser
    /\ params = NoParams
    /\ log = << >>
    /\ result = Pending
    /\ packageFile = NoPackageFile
    /\ mapping = NoMapping
    /\ accessKey = NotCalled

\* new AccountManager(accessKey): the constructor throws when the key is
\* missing; otherwise it keeps the key and constructs the RequestManager (whose
\* constructor makes the same test) and the Adapter
Constructor ==
    /\ pc = "new"
    /\ \E key \in AccessKeys :
          /\ accessKey' = key
          /\ IF MissingKey(key) \/ RequestManagerThrows(key)
             THEN /\ result' = Thrown(CodePushUnauthorizedError)
                  /\ pc' = "new"
             ELSE /\ result' = Pending
                  /\ pc' = "idle"
    /\ UNCHANGED <<variant, op, user, params, log, packageFile, mapping>>

\* the arguments an operation is called with
AppArgs(name) == IF name \in {"isAuthenticated", "getSessions"} THEN {<< >>} ELSE Identifiers
FlagArgs(name) == IF name \in {"isAuthenticated", "addApp"} THEN Flags ELSE {"omitted"}
OsArgs(name) == IF name = "addApp" THEN OsValues ELSE {""}
PlatformArgs(name) == IF name = "addApp" THEN PlatformValues ELSE {""}
NewNameArgs(name) == IF name = "renameApp" THEN NewNames ELSE {<< >>}
DirArgs(name) == IF name = "release" THEN BOOLEAN ELSE {FALSE}

\* The caller invokes an operation of the manager.
Call ==
    /\ pc = "idle"
    /\ \E name \in OpNames(variant) :
          \E app \in AppArgs(name), flag \in FlagArgs(name), os \in OsArgs(name),
             platform \in PlatformArgs(name), newName \in NewNameArgs(name),
             dir \in DirArgs(name) :
                /\ op' = [name |-> name, app |-> app, flag |-> flag, os |-> os,
                          platform |-> platform, newName |-> newName, dir |-> dir]
                /\ pc' = FirstPc(variant, name)
    /\ UNCHANGED <<variant, user, params, log, result, packageFile>>
    /\ UNCHANGED <<mapping, accessKey>>

\* The caller has received the settlement; the manager keeps nothing of the call.
Return ==
    /\ pc = "done"
    /\ pc' = "idle"
    /\ op' = Idle
    /\ user' = NoUser
    /\ params' = NoParams
    /\ log' = << >>
    /\ result' = Pending
    /\ packageFile' = NoPackageFile
    /\ UNCHANGED variant
    /\ UNCHANGED <<mapping, accessKey>>

\* AwaitParseApiAppName with a getUser whose catch swallows the error: the
\* resolution goes on with the profile undefined
AwaitParseApiAppName_SwallowError ==
    /\ pc = "parseApiAppName"
    /\ \E res \in Responses :
          LET req == Req("get", UserPath, TRUE)
              out == makeApiRequest(req.expect, res)
          IN  /\ log' = Append(log, Entry(req, res, out))
              /\ user' = [known |-> out.ok, name |-> res.name]
              /\ params' = parseApiAppName(op.app, res.name)
              /\ pc' = AfterParse(op.name)
              /\ UNCHANGED result
    /\ UNCHANGED <<variant, op, packageFile>>
    /\ UNCHANGED <<mapping, accessKey>>

\* Adapter.parseApiAppName: await getUser(), then the split.
AwaitParseApiAppName ==
    /\ pc = "parseApiAppName"
    /\ \E res \in Responses :
          LET req == Req("get", UserPath, TRUE)
              out == makeApiRequest(req.expect, res)
          IN  /\ log' = Append(log, Entry(req, res, out))
              /\ IF out.ok
                 THEN /\ user' = [known |-> TRUE, name |-> res.name]
                      /\ params' = parseApiAppName(op.app, res.name)
                      /\ pc' = AfterParse(op.name)
                      /\ UNCHANGED result
                 ELSE /\ result' = Rejected(out.error)
                      /\ pc' = "done"
                      /\ UNCHANGED <<user, params>>
    /\ UNCHANGED <<variant, op, packageFile>>
    /\ UNCHANGED <<mapping, accessKey>>

\* The request of an operation that resolved its app name, and the mapping of
\* the response when the mapping needs no further request.
AwaitRequest ==
    /\ pc = "request"
    /\ \E res \in Responses :
          LET req == ResolvedRequest(op.name, params.appOwner, params.appName)
              out == makeApiRequest(req.expect, res)
          IN  /\ log' = Append(log, Entry(req, res, out))
              /\ IF ~out.ok
                 THEN /\ result' = Rejected(out.error)
                      /\ pc' = "done"
                 ELSE IF op.name = "getApp"
                      THEN pc' = "toLegacyApp" /\ UNCHANGED result
                      ELSE IF op.name = "getCollaborators"
                           THEN pc' = "toLegacyCollaborators" /\ UNCHANGED result
                           ELSE /\ result' = Resolved(ResultValue(op.name))
                                /\ pc' = "done"
    /\ UNCHANGED <<variant, op, user, params, packageFile>>
    /\ UNCHANGED <<mapping, accessKey>>

-----------------------------------------------------------------------------
(* Adapter: validation *)

MaxAppNameLength == 1000

\* the characters of the model that /^[a-zA-Z0-9-._]+$/ accepts
NameChars == {"a", "b", "u", "o", "A", "1", ".", "-", "_"}

\* Adapter.isValidAppCenterAppName with getStringValidator(1000, 1)
isValidAppCenterAppName(name) ==
    /\ Len(name) <= MaxAppNameLength
    /\ Len(name) >= 1
    /\ \A i \in 1..Len(name) : name[i] \in NameChars

Conflict(message) == [message |-> message, statusCode |-> ERROR_CONFLICT]

\* Adapter.getOrgFromLegacyAppRequest: the text before the first slash, or null
getOrgFromLegacyAppRequest(name) ==
    IF IndexOf(name, "/") # -1
    THEN [isNull |-> FALSE, text |-> SubstringTo(name, 0, IndexOf(name, "/"))]
    ELSE [isNull |-> TRUE, text |-> << >>]

\* toAppcenterClientApp taking the whole name for the display name
toAppcenterClientApp_WholeName(name) == name

\* Adapter.toAppcenterClientApp: display_name
toAppcenterClientApp(name) ==
    IF IndexOf(name, "/") # -1 THEN SubstringFrom(name, IndexOf(name, "/") + 1) ELSE name

\* toApigatewayAppCreationRequest without the check of the platform
toApigatewayAppCreationRequest_NoPlatformCheck(name, os, platform) ==
    IF os \notin {"iOS", "Android", "Windows", "Linux"}
    THEN Conflict("The app OS isn't valid")
    ELSE IF ~isValidAppCenterAppName(toAppcenterClientApp(name))
         THEN Conflict("The app name isn't valid")
         ELSE NoError

\* Adapter.toApigatewayAppCreationRequest: the error it throws, or NoError
toApigatewayAppCreationRequest(name, os, platform) ==
    IF os \notin {"iOS", "Android", "Windows", "Linux"}
    THEN Conflict("The app OS isn't valid")
    ELSE IF platform \notin {"React-Native", "Cordova", "Electron"}
         THEN Conflict("The app platform isn't valid")
         ELSE IF ~isValidAppCenterAppName(toAppcenterClientApp(name))
              THEN Conflict("The app name isn't valid")
              ELSE NoError

\* what Adapter.toApigatewayAppCreationRequest returns when it does not throw:
\* {org, appcenterClientApp}
ApigatewayAppCreationRequest(name, os, platform) ==
    [org |-> getOrgFromLegacyAppRequest(name),
     appcenterClientApp |-> [os |-> os, platform |-> platform,
                             display_name |-> toAppcenterClientApp(name)]]

\* Adapter.getRenamedApp after its getApp: the error it throws, or NoError
getRenamedApp(newName) ==
    IF IndexOf(newName, "/") # -1
    THEN Conflict("The new app name must be unqualified")
    ELSE IF ~isValidAppCenterAppName(newName)
         THEN Conflict("The app name isn't valid")
         ELSE NoError

-----------------------------------------------------------------------------
(* Steps that follow the name resolution *)

\* renameApp: Adapter.getRenamedApp awaits getApp(appOwner, oldName), then validates newName
AwaitGetRenamedApp ==
    /\ pc = "getRenamedApp"
    /\ \E res \in Responses :
          LET req == Req("get", AppPath(params.appOwner, params.appName), TRUE)
              out == makeApiRequest(req.expect, res)
          IN  /\ log' = Append(log, Entry(req, res, out))
              /\ IF ~out.ok
                 THEN result' = Rejected(out.error) /\ pc' = "done"
                 ELSE IF getRenamedApp(op.newName) # NoError
                      THEN result' = Rejected(getRenamedApp(op.newName)) /\ pc' = "done"
                      ELSE pc' = "request" /\ UNCHANGED result
    /\ UNCHANGED <<variant, op, user, params, packageFile>>
    /\ UNCHANGED <<mapping, accessKey>>

\* JoinErrors always taking the error of the second settlement
JoinErrors_SecondOnly(out1, out2) == {out2.error}

\* The settlement of Promise.all over two settlements: resolved when both are,
\* otherwise rejected with the error of a rejected one (the first to reject).
JoinErrors(out1, out2) ==
    {o.error : o \in {x \in {out1, out2} : ~x.ok}}

\* getApp: Adapter.toLegacyApp awaits Promise.all([getUser(), getDeployments(owner, name)]);
\* the app of the response body is the one that was asked for.
AwaitToLegacyApp ==
    /\ pc = "toLegacyApp"
    /\ \E res1 \in Responses, res2 \in Responses :
          LET req1 == Req("get", UserPath, TRUE)
              req2 == Req("get", AppPath(params.appOwner, params.appName)
                                    \o <<"/", "deployments", "/">>, TRUE)
              out1 == makeApiRequest(req1.expect, res1)
              out2 == makeApiRequest(req2.expect, res2)
          IN  /\ log' = log \o <<Entry(req1, res1, out1), Entry(req2, res2, out2)>>
              /\ IF out1.ok /\ out2.ok
                 THEN result' = Resolved(ResultValue(op.name))
                 ELSE \E e \in JoinErrors(out1, out2) : result' = Rejected(e)
              /\ pc' = "done"
    /\ UNCHANGED <<variant, op, user, params, packageFile>>
    /\ UNCHANGED <<mapping, accessKey>>

\* getCollaborators (first definition): Adapter.toLegacyCollaborators awaits getUser()
AwaitToLegacyCollaborators ==
    /\ pc = "toLegacyCollaborators"
    /\ \E res \in Responses :
          LET req == Req("get", UserPath, TRUE)
              out == makeApiRequest(req.expect, res)
          IN  /\ log' = Append(log, Entry(req, res, out))
              /\ result' = IF out.ok THEN Resolved(ResultValue(op.name)) ELSE Rejected(out.error)
              /\ pc' = "done"
    /\ UNCHANGED <<variant, op, user, params, packageFile>>
    /\ UNCHANGED <<mapping, accessKey>>

\* patchRelease, promote, rollback (and, in the second definition, the collaborator,
\* transfer and metrics operations): one request to the appNameParam path
AwaitLegacyRequest ==
    /\ pc = "legacyRequest"
    /\ \E res \in Responses :
          LET req == LegacyRequest(op.name, op.app)
              out == makeApiRequest(req.expect, res)
          IN  /\ log' = Append(log, Entry(req, res, out))
              /\ result' = IF out.ok THEN Resolved(ResultValue(op.name)) ELSE Rejected(out.error)
              /\ pc' = "done"
    /\ UNCHANGED <<variant, op, user, params, packageFile>>
    /\ UNCHANGED <<mapping, accessKey>>

-----------------------------------------------------------------------------
(* Deprecated operations *)

Deprecated == [message |-> "Method is deprecated", statusCode |-> ERROR_NOT_FOUND]

\* first definition: getAccessKey, getSessions, patchAccessKey, removeSession throw
DeprecatedThrow ==
    /\ pc = "deprecated"
    /\ variant = 1
    /\ result' = Thrown(Deprecated)
    /\ pc' = "done"
    /\ UNCHANGED <<variant, op, user, params, log, packageFile>>
    /\ UNCHANGED <<mapping, accessKey>>

\* second definition: the same operations call the legacy endpoints; the mapping
\* reads res.body.accessKey, which throws when the response has no body
AwaitDeprecatedRequest ==
    /\ pc = "deprecated"
    /\ variant = 2
    /\ \E res \in Responses :
          LET req == DeprecatedRequest(op.name, op.app)
              out == makeApiRequest(req.expect, res)
          IN  /\ log' = Append(log, Entry(req, res, out))
              /\ result' = IF ~out.ok THEN Rejected(out.error)
                           ELSE IF op.name = "patchAccessKey" /\ ~out.hasBody
                                THEN Rejected(TypeError)
                                ELSE Resolved(ResultValue(op.name))
              /\ pc' = "done"
    /\ UNCHANGED <<variant, op, user, params, packageFile>>
    /\ UNCHANGED <<mapping, accessKey>>

-----------------------------------------------------------------------------
(* isAuthenticated *)

\* a truthiness test that never sees the flag
Truthy_Never(flag) == FALSE

Truthy(flag) == flag = "true"
Bool(b) == IF b THEN "true" ELSE "false"

\* first definition: get(`/user`, false, throwIfUnauthorized) without a catch;
\* RequestManager.get takes two parameters, the third argument is dropped
IsAuthenticated ==
    /\ pc = "isAuthenticated"
    /\ variant = 1
    /\ \E res \in Responses :
          LET req == Req("get", UserPath, FALSE)
              out == makeApiRequest(req.expect, res)
          IN  /\ log' = Append(log, Entry(req, res, out))
              /\ result' = IF out.ok THEN Resolved(Bool(out.hasBody)) ELSE Rejected(out.error)
              /\ pc' = "done"
    /\ UNCHANGED <<variant, op, user, params, packageFile>>
    /\ UNCHANGED <<mapping, accessKey>>

\* IsAuthenticatedSecond with a catch that rethrows only when throwIfUnauthorized is set
IsAuthenticatedSecond_SwallowAll ==
    /\ pc = "isAuthenticated"
    /\ variant = 2
    /\ \E res \in Responses :
          LET req == Req("get", UserPath, TRUE)
              out == makeApiRequest(req.expect, res)
          IN  /\ log' = Append(log, Entry(req, res, out))
              /\ result' = IF out.ok THEN Resolved(Bool(out.hasBody))
                           ELSE IF Truthy(op.flag)
                                THEN Rejected(out.error)
                                ELSE Resolved(Bool(FALSE))
              /\ pc' = "done"
    /\ UNCHANGED <<variant, op, user, params, packageFile>>
    /\ UNCHANGED <<mapping, accessKey>>

\* second definition: the catch rethrows unless the status is 401 and
\* throwIfUnauthorized is falsy; authenticated = !!res && !!res.body
IsAuthenticatedSecond ==
    /\ pc = "isAuthenticated"
    /\ variant = 2
    /\ \E res \in Responses :
          LET req == Req("get", UserPath, TRUE)
              out == makeApiRequest(req.expect, res)
          IN  /\ log' = Append(log, Entry(req, res, out))
              /\ result' = IF out.ok THEN Resolved(Bool(out.hasBody))
                           ELSE IF out.error.statusCode # ERROR_UNAUTHORIZED \/ Truthy(op.flag)
                                THEN Rejected(out.error)
                                ELSE Resolved(Bool(FALSE))
              /\ pc' = "done"
    /\ UNCHANGED <<variant, op, user, params, packageFile>>
    /\ UNCHANGED <<mapping, accessKey>>

-----------------------------------------------------------------------------
(* addApp *)

\* org ? `/orgs/${org}/apps` : `/apps` (null and the empty string are falsy)
AddAppPath(org) ==
    IF ~org.isNull /\ org.text # << >>
    THEN <<"/", "orgs", "/">> \o org.text \o <<"/", "apps">>
    ELSE <<"/", "apps">>

\* AccountManager.addApp up to its first await: the validation of the adapter
\* (a throw rejects the promise before any request), then the creation POST
AwaitAddApp ==
    /\ pc = "addApp"
    /\ LET invalid == toApigatewayAppCreationRequest(op.app, op.os, op.platform)
       IN  IF invalid # NoError
           THEN /\ result' = Rejected(invalid)
                /\ pc' = "done"
                /\ UNCHANGED log
           ELSE \E res \in Responses :
                   LET req == Req("post", AddAppPath(getOrgFromLegacyAppRequest(op.app)), FALSE)
                       out == makeApiRequest(req.expect, res)
                   IN  /\ log' = Append(log, Entry(req, res, out))
                       /\ IF ~out.ok
                          THEN result' = Rejected(out.error) /\ pc' = "done"
                          ELSE IF Truthy(op.flag)
                               THEN result' = Resolved(ResultValue(op.name)) /\ pc' = "done"
                               ELSE pc' = "parseApiAppName" /\ UNCHANGED result
    /\ UNCHANGED <<variant, op, user, params, packageFile>>
    /\ UNCHANGED <<mapping, accessKey>>

deploymentsToCreate == <<"Staging", "Production">>

\* the POST of a deployment of the app: the deployment's name is the body
PostDeployment(appOwner, appName, deploymentName) ==
    [Req("post", AppPath(appOwner, appName) \o <<"/", "deployments", "/">>, TRUE)
        EXCEPT !.body = deploymentName]

\* Adapter.addStandardDeployments after parseApiAppName: the POSTs of 'Staging'
\* and 'Production', joined by Promise.all
AwaitAddStandardDeployments ==
    /\ pc = "addStandardDeployments"
    /\ \E res1 \in Responses, res2 \in Responses :
          LET req1 == PostDeployment(params.appOwner, params.appName, deploymentsToCreate[1])
              req2 == PostDeployment(params.appOwner, params.appName, deploymentsToCreate[2])
              out1 == makeApiRequest(req1.expect, res1)
              out2 == makeApiRequest(req2.expect, res2)
          IN  /\ log' = log \o <<Entry(req1, res1, out1), Entry(req2, res2, out2)>>
              /\ IF out1.ok /\ out2.ok
                 THEN result' = Resolved(ResultValue(op.name))
                 ELSE \E e \in JoinErrors(out1, out2) : result' = Rejected(e)
              /\ pc' = "done"
    /\ UNCHANGED <<variant, op, user, params, packageFile>>
    /\ UNCHANGED <<mapping, accessKey>>

-----------------------------------------------------------------------------
(* release (first definition) *)

FsError == [message |-> "file system error", statusCode |-> 0]
UploadError == [message |-> "upload failed", statusCode |-> 0]

\* a step of release that is no request: the archive creation, the asset upload
Event(kind, ok, error) ==
    [method |-> kind, path |-> << >>, body |-> "", status |-> 0, msg |-> "", ok |-> ok,
     error |-> error]

\* the mapping of the committed release to a Package
toLegacyPackage(release) == IF release = "null" THEN "null" ELSE "mapped"

\* urlEncode`/apps/${userName}/${appName}/deployments/${deploymentName}/` + last
ReleasePath(userName, appName, last) ==
    EncodedAppPath(userName, appName) \o <<"/", "deployments", "/">>
        \o encodeURIComponent(DeploymentName) \o <<"/", last>>

\* AccountManager.packageFileFromPath: lstatSync may throw; a file is used as it
\* is; a directory is read (readdirr may fail) and zipped into a new archive in
\* the working directory (the write stream may fail, the file created or not)
AwaitPackageFileFromPath ==
    /\ pc = "packageFileFromPath"
    /\ \/ /\ log' = Append(log, Event("lstat", FALSE, FsError))
          /\ result' = Rejected(FsError)
          /\ pc' = "done"
          /\ UNCHANGED packageFile
       \/ /\ ~op.dir
          /\ packageFile' = [set |-> TRUE, isTemporary |-> FALSE, exists |-> TRUE]
          /\ pc' = "getAccountInfo"
          /\ UNCHANGED <<log, result>>
       \/ /\ op.dir
          /\ packageFile' = [set |-> TRUE, isTemporary |-> TRUE, exists |-> TRUE]
          /\ log' = Append(log, Event("zip", TRUE, NoError))
          /\ pc' = "getAccountInfo"
          /\ UNCHANGED result
       \/ /\ op.dir
          /\ \E created \in BOOLEAN :
                packageFile' = [set |-> FALSE, isTemporary |-> TRUE, exists |-> created]
          /\ log' = Append(log, Event("zip", FALSE, FsError))
          /\ result' = Rejected(FsError)
          /\ pc' = "done"
    /\ UNCHANGED <<variant, op, user, params>>
    /\ UNCHANGED <<mapping, accessKey>>

\* const userName = (await this.getAccountInfo()).name
AwaitGetAccountInfo ==
    /\ pc = "getAccountInfo"
    /\ \E res \in Responses :
          LET req == Req("get", UserPath, TRUE)
              out == makeApiRequest(req.expect, res)
          IN  /\ log' = Append(log, Entry(req, res, out))
              /\ IF out.ok
                 THEN /\ user' = [known |-> TRUE, name |-> res.name]
                      /\ pc' = "uploads"
                      /\ UNCHANGED result
                 ELSE /\ result' = Rejected(out.error)
                      /\ pc' = "done"
                      /\ UNCHANGED user
    /\ UNCHANGED <<variant, op, params, packageFile>>
    /\ UNCHANGED <<mapping, accessKey>>

\* the POST that asks for the upload placeholders
AwaitUploads ==
    /\ pc = "uploads"
    /\ \E res \in Responses :
          LET req == Req("post", ReleasePath(user.name, op.app, "uploads"), TRUE)
              out == makeApiRequest(req.expect, res)
          IN  /\ log' = Append(log, Entry(req, res, out))
              /\ IF out.ok
                 THEN pc' = "upload" /\ UNCHANGED result
                 ELSE result' = Rejected(out.error) /\ pc' = "done"
    /\ UNCHANGED <<variant, op, user, params, packageFile>>
    /\ UNCHANGED <<mapping, accessKey>>

\* AwaitUpload without the await: the commit follows whether or not the upload succeeded
AwaitUpload_IgnoreFailure ==
    /\ pc = "upload"
    /\ \E ok \in BOOLEAN :
          log' = Append(log, Event("upload", ok, IF ok THEN NoError ELSE UploadError))
    /\ pc' = "commit"
    /\ UNCHANGED <<variant, op, user, params, packageFile, result>>
    /\ UNCHANGED <<mapping, accessKey>>

\* await this._fileUploadClient.upload(...)
AwaitUpload ==
    /\ pc = "upload"
    /\ \E ok \in BOOLEAN :
          /\ log' = Append(log, Event("upload", ok, IF ok THEN NoError ELSE UploadError))
          /\ IF ok
             THEN pc' = "commit" /\ UNCHANGED result
             ELSE result' = Rejected(UploadError) /\ pc' = "done"
    /\ UNCHANGED <<variant, op, user, params, packageFile>>
    /\ UNCHANGED <<mapping, accessKey>>

\* the POST that commits the release, and the mapping of its response
AwaitCommit ==
    /\ pc = "commit"
    /\ \E res \in Responses :
          LET req == Req("post", ReleasePath(user.name, op.app, "releases"), TRUE)
              out == makeApiRequest(req.expect, res)
          IN  /\ log' = Append(log, Entry(req, res, out))
              /\ result' = IF out.ok THEN Resolved(toLegacyPackage("release"))
                           ELSE Rejected(out.error)
              /\ pc' = "done"
    /\ UNCHANGED <<variant, op, user, params, packageFile>>
    /\ UNCHANGED <<mapping, accessKey>>

-----------------------------------------------------------------------------

Next ==
    \/ Constructor
    \/ Call
    \/ Return
    \/ AwaitParseApiAppName
    \/ AwaitRequest
    \/ AwaitGetRenamedApp
    \/ AwaitToLegacyApp
    \/ AwaitToLegacyCollaborators
    \/ AwaitLegacyRequest
    \/ DeprecatedThrow
    \/ AwaitDeprecatedRequest
    \/ IsAuthenticated
    \/ IsAuthenticatedSecond
    \/ AwaitAddApp
    \/ AwaitAddStandardDeployments
    \/ AwaitPackageFileFromPath
    \/ AwaitGetAccountInfo
    \/ AwaitUploads
    \/ AwaitUpload
    \/ AwaitCommit

Spec == Init /\ [][Next]_vars

-----------------------------------------------------------------------------
(* Adapter: values of the mapping functions *)

MaxItems == 3        \* longest array a mapping function is given

\* the arrays of at most MaxItems elements of S
Arrays(S) == SeqsUpTo(S, MaxItems)

\* created_at of an ApiTokensGetResponse: missing, not a date, or an ISO date
CreatedAtValues ==
    {"undefined", "soon", "1969-12-31T23:59:59.999Z", "1970-01-01T00:00:00.001Z",
     "1970-01-01T00:00:00.002Z"}

\* Date.parse: the milliseconds since the epoch, NaN for what is no date
DateParse(text) ==
    CASE text = "1969-12-31T23:59:59.999Z" -> [nan |-> FALSE, ms |-> -1]
      [] text = "1970-01-01T00:00:00.001Z" -> [nan |-> FALSE, ms |-> 1]
      [] text = "1970-01-01T00:00:00.002Z" -> [nan |-> FALSE, ms |-> 2]
      [] OTHER -> [nan |-> TRUE, ms |-> 0]

\* time || 0: NaN and 0 are falsy
OrZero(time) == IF time.nan THEN 0 ELSE time.ms

ApiTokens == {[id |-> "id", description |-> "k", created_at |-> c] : c \in CreatedAtValues}

\* a number, null or undefined, as a field of a backend object holds it
Number(n) == [kind |-> "number", n |-> n]
NullValue == [kind |-> "null", n |-> 0]
UndefinedValue == [kind |-> "undefined", n |-> 0]

\* the truthiness of such a value: null, undefined and 0 are falsy
TruthyValue(v) == v.kind = "number" /\ v.n # 0

RolloutValues == {UndefinedValue, NullValue, Number(0), Number(42)}

\* a CodePushRelease of the backend, or null or undefined in its place
CodePushReleases ==
    {[kind |-> "object", label |-> "v1", rollout |-> r, is_disabled |-> d] :
        r \in RolloutValues, d \in {"undefined", "true"}}
NullRelease == [kind |-> "null", label |-> "", rollout |-> UndefinedValue, is_disabled |-> "undefined"]
UndefinedRelease ==
    [kind |-> "undefined", label |-> "", rollout |-> UndefinedValue, is_disabled |-> "undefined"]

\* the names of deployments, apps and owners: sequences of letters
Names == {<<"a">>, <<"B">>, <<"a", "b">>}

\* the latest_release of the deployments of an array: null, absent, or a release
LatestReleases ==
    {NullRelease, UndefinedRelease}
        \cup {r \in CodePushReleases : r.is_disabled = "undefined" /\ r.rollout.kind # "null"
                                           /\ r.rollout # Number(0)}

BackendDeployments ==
    {[name |-> n, key |-> <<"key">> \o n, latest_release |-> r] : n \in Names, r \in LatestReleases}

Owners ==
    {[id |-> "u1", name |-> <<"a">>], [id |-> "u2", name |-> <<"B">>], [id |-> "u3", name |-> << >>]}

\* display_name of a backend App: absent, or a text
DisplayNames == {[defined |-> FALSE, text |-> << >>], [defined |-> TRUE, text |-> <<"a">>],
                 [defined |-> TRUE, text |-> <<"D">>]}

BackendApps ==
    {[name |-> n, display_name |-> d, owner |-> o] : n \in Names, d \in DisplayNames, o \in Owners}

\* the apps of the arrays given to toLegacyApps
ListedApps == {a \in BackendApps : a.display_name = [defined |-> TRUE, text |-> <<"a">>]}

CallingUsers == {[id |-> "u1", name |-> <<"a">>], [id |-> "u2", name |-> <<"B">>]}

-----------------------------------------------------------------------------
(* Adapter: String.prototype.localeCompare and Array.prototype.sort *)

\* the place of a letter in the alphabet, whatever its case
Weight(c) ==
    CASE c \in {"a", "A"} -> 1
      [] c \in {"b", "B"} -> 2
      [] c \in {"d", "D"} -> 4
      [] OTHER -> 0

\* lower case sorts before upper case
CaseOf(c) == IF c \in {"A", "B", "D"} THEN 1 ELSE 0

\* the comparison of two sequences of integers: -1, 0 or 1
RECURSIVE CompareKeys(_, _)
CompareKeys(k1, k2) ==
    IF k1 = << >> /\ k2 = << >> THEN 0
    ELSE IF k1 = << >> THEN -1
    ELSE IF k2 = << >> THEN 1
    ELSE IF Head(k1) < Head(k2) THEN -1
    ELSE IF Head(k1) > Head(k2) THEN 1
    ELSE CompareKeys(Tail(k1), Tail(k2))

\* first.localeCompare(second): the letters decide, their case breaks the ties
localeCompare(first, second) ==
    LET letters == CompareKeys([i \in 1..Len(first) |-> Weight(first[i])],
                               [i \in 1..Len(second) |-> Weight(second[i])])
    IN  IF letters # 0 THEN letters
        ELSE CompareKeys([i \in 1..Len(first) |-> CaseOf(first[i])],
                         [i \in 1..Len(second) |-> CaseOf(second[i])])

\* array.sort(compare), compared[i, j] being what compare answers for the i-th
\* and the j-th element: the elements in the order of compare, elements that
\* compare equal keeping their order (the sort is stable)
Sort(array, compared) ==
    LET n == Len(array)
        order == CHOOSE p \in [1..n -> 1..n] :
                    /\ \A i, j \in 1..n : i # j => p[i] # p[j]
                    /\ \A i, j \in 1..n : i < j =>
                          \/ compared[p[i], p[j]] < 0
                          \/ compared[p[i], p[j]] = 0 /\ p[i] < p[j]
    IN  [i \in 1..n |-> array[order[i]]]

-----------------------------------------------------------------------------
(* Adapter: the mapping functions *)

\* what a call ends with: the value it returns, or a throw (a rejection)
Returned(value) == [threw |-> FALSE, value |-> value]
Threw(placeholder) == [threw |-> TRUE, value |-> placeholder]

\* toLegacyAccessKeyList without its sort
toLegacyAccessKeyList_Unsorted(apiTokens) ==
    [i \in 1..Len(apiTokens) |->
        [createdTime |-> DateParse(apiTokens[i].created_at),
         expires |-> "Date.parse('9999-12-31T23:59:59')",
         name |-> apiTokens[i].description]]

\* Adapter.toLegacyAccessKeyList: map, then sort by (createdTime || 0)
toLegacyAccessKeyList(apiTokens) ==
    LET accessKeyList ==
            [i \in 1..Len(apiTokens) |->
                [createdTime |-> DateParse(apiTokens[i].created_at),
                 expires |-> "Date.parse('9999-12-31T23:59:59')",
                 name |-> apiTokens[i].description]]
    IN  Sort(accessKeyList,
             [i, j \in 1..Len(accessKeyList) |->
                 OrZero(accessKeyList[i].createdTime) - OrZero(accessKeyList[j].createdTime)])

\* a Package of the client, or null in its place
NullPackage == [kind |-> "null", label |-> "", isDisabled |-> FALSE, rollout |-> UndefinedValue]

\* Adapter.releaseToPackage: reading blob_url of null or undefined throws a
\* TypeError; isDisabled is !!is_disabled; label and rollout are set when truthy
releaseToPackage(releasePackage) ==
    IF releasePackage.kind # "object"
    THEN Threw(NullPackage)
    ELSE Returned([kind |-> "object",
                   label |-> releasePackage.label,
                   isDisabled |-> releasePackage.is_disabled = "true",
                   rollout |-> IF TruthyValue(releasePackage.rollout)
                               THEN releasePackage.rollout
                               ELSE UndefinedValue])

\* Adapter.toLegacyDeploymentHistory: releases.map(release => releaseToPackage(release))
toLegacyDeploymentHistory(releases) ==
    IF \E i \in 1..Len(releases) : releaseToPackage(releases[i]).threw
    THEN Threw(<< >>)
    ELSE Returned([i \in 1..Len(releases) |-> releaseToPackage(releases[i]).value])

\* Adapter.toLegacyRestDeployment: latest_release ? releaseToPackage(latest_release) : null
toLegacyRestDeployment(deployment) ==
    [name |-> deployment.name,
     key |-> deployment.key,
     package |-> IF deployment.latest_release.kind = "object"
                 THEN releaseToPackage(deployment.latest_release).value
                 ELSE NullPackage]

\* Adapter.toLegacyRestDeployments
toLegacyRestDeployments(apiGatewayDeployments) ==
    [i \in 1..Len(apiGatewayDeployments) |-> toLegacyRestDeployment(apiGatewayDeployments[i])]

\* toLegacyDeployments without its sort
toLegacyDeployments_Unsorted(deployments) ==
    toLegacyRestDeployments(deployments)

\* Adapter.toLegacyDeployments: sort by name.localeCompare, then map
toLegacyDeployments(deployments) ==
    toLegacyRestDeployments(
        Sort(deployments, [i, j \in 1..Len(deployments) |->
                              localeCompare(deployments[i].name, deployments[j].name)]))

\* Adapter.toLegacyDeployment
toLegacyDeployment(deployment) == toLegacyRestDeployment(deployment)

\* `${app.display_name}`
DisplayText(display_name) == IF display_name.defined THEN display_name.text ELSE <<"undefined">>

\* toLegacyRestApp with every owner marked as the current account
toLegacyRestApp_AlwaysCurrentAccount(app, callingUser, deployments) ==
    LET isCurrentAccount == callingUser.id = app.owner.id
        isNameAndDisplayNameSame == app.display_name.defined /\ app.name = app.display_name.text
        qualified == IF ~isCurrentAccount THEN app.owner.name \o <<"/">> \o app.name ELSE app.name
        appName == IF ~isNameAndDisplayNameSame
                   THEN qualified \o <<" ", " ", "(">> \o DisplayText(app.display_name) \o <<")">>
                   ELSE qualified
    IN  [name |-> appName,
         collaborators |-> [account \in {app.owner.name} |->
                               [isCurrentAccount |-> TRUE, permission |-> "Owner"]],
         deployments |-> deployments]

\* Adapter.toLegacyRestApp; collaborators is the map {[app.owner.name]: {...}}
toLegacyRestApp(app, callingUser, deployments) ==
    LET isCurrentAccount == callingUser.id = app.owner.id
        isNameAndDisplayNameSame == app.display_name.defined /\ app.name = app.display_name.text
        qualified == IF ~isCurrentAccount THEN app.owner.name \o <<"/">> \o app.name ELSE app.name
        appName == IF ~isNameAndDisplayNameSame
                   THEN qualified \o <<" ", " ", "(">> \o DisplayText(app.display_name) \o <<")">>
                   ELSE qualified
    IN  [name |-> appName,
         collaborators |-> [account \in {app.owner.name} |->
                               [isCurrentAccount |-> callingUser.id = app.owner.id,
                                permission |-> "Owner"]],
         deployments |-> deployments]

\* the names of the deployments getDeployments returns for an app
DeploymentNames == <<"Production", "Staging">>

\* the comparison of toLegacyApps: the owners' names (|| '') when they differ, the apps' names otherwise
CompareApps(first, second) ==
    IF first.owner.name # second.owner.name
    THEN localeCompare(first.owner.name, second.owner.name)
    ELSE localeCompare(first.name, second.name)

\* toLegacyApps comparing the names of the apps only
toLegacyApps_ByNameOnly(apps, callingUser) ==
    LET sortedApps == Sort(apps, [i, j \in 1..Len(apps) |-> localeCompare(apps[i].name, apps[j].name)])
    IN  [i \in 1..Len(apps) |-> toLegacyRestApp(sortedApps[i], callingUser, DeploymentNames)]

\* Adapter.toLegacyApps once getUser and every getDeployments have answered:
\* sort by owner, then by name; map each app in that order
toLegacyApps(apps, callingUser) ==
    LET sortedApps == Sort(apps, [i, j \in 1..Len(apps) |-> CompareApps(apps[i], apps[j])])
    IN  [i \in 1..Len(apps) |-> toLegacyRestApp(sortedApps[i], callingUser, DeploymentNames)]

\* the arguments of toApigatewayAppCreationRequest: names with and without an
\* org, with characters that are not allowed, empty, of 1000 and of 1001 characters
CreationNames ==
    {<<"a">>, <<"A", "1", ".", "-", "_">>, << >>, <<"a", "$">>, <<"o", "/", "a">>,
     <<"o", "/">>, <<"/", "a">>, <<"o", "/", "a", "/", "b">>, <<"o", "/", "a", "$">>,
     <<"$", "/", "a">>,
     [i \in 1..MaxAppNameLength |-> "a"], [i \in 1..(MaxAppNameLength + 1) |-> "a"]}
CreationOs == {"iOS", "Android", "Windows", "Linux", "PalmOS"}
CreationPlatforms == {"React-Native", "Cordova", "Electron", "Flash"}

\* a field of a PackageInfo: not set, or set to a value (false, 0 and '' are falsy)
Unset == [defined |-> FALSE, value |-> "undefined"]
Set(value) == [defined |-> TRUE, value |-> value]
TruthyField(field) == field.defined /\ field.value \notin {"false", "0", ""}

PackageInfos ==
    [appVersion : {Unset, Set("1.0")},
     isDisabled : {Unset, Set("false"), Set("true")},
     isMandatory : {Unset, Set("false"), Set("true")},
     description : {Unset, Set(""), Set("text")},
     rollout : {Unset, Set("0"), Set("42")},
     label : {Unset, Set("v1")}]

\* the users of an app as GET /apps/{owner}/{app}/users lists them: the email,
\* the name and the permissions, of which the first is read
Emails == {"m1", "m2"}
Roles == {"manager", "developer", "viewer", "tester"}
BackendUsers ==
    {[email |-> m, name |-> n, permissions |-> <<r>>] :
        m \in Emails, n \in {<<"a">>, <<"B">>}, r \in Roles}

\* the lists of users: an account is listed once
UserLists ==
    {l \in Arrays(BackendUsers) : \A i, j \in 1..Len(l) : i # j => l[i].email # l[j].email}

\* the profile GET /user answers with, as far as toLegacyCollaborators reads it
CallingProfiles == {[email |-> "m1"], [email |-> "m3"]}

\* toLegacyUserPermission taking every manager for the owner
toLegacyUserPermission_ManagerIsOwner(expectedPermission, isOwner) ==
    IF expectedPermission = "manager" THEN "Owner"
    ELSE IF expectedPermission = "developer" THEN "Collaborator"
    ELSE "Reader"

\* Adapter.toLegacyUserPermission
toLegacyUserPermission(expectedPermission, isOwner) ==
    IF expectedPermission = "manager" THEN (IF isOwner THEN "Owner" ELSE "Manager")
    ELSE IF expectedPermission = "developer" THEN "Collaborator"
    ELSE "Reader"

\* Adapter.toLegacyCollaborators once getUser has answered: forEach user,
\* legacyCollaborators[user.email] = {...}, a later user replacing an earlier one
\* of the same email; isOwner is user.name && user.name === appOwner
toLegacyCollaborators(userList, appOwner, callingUser) ==
    [email \in {userList[i].email : i \in 1..Len(userList)} |->
        LET last == CHOOSE i \in 1..Len(userList) :
                        /\ userList[i].email = email
                        /\ \A j \in (i + 1)..Len(userList) : userList[j].email # email
            listed == userList[last]
        IN  [isCurrentAccount |-> callingUser.email = listed.email,
             permission |-> toLegacyUserPermission(
                                listed.permissions[1],
                                listed.name # << >> /\ listed.name = appOwner)]]

\* if (info.field) releaseModification.other = info.field
CopiedIfTruthy(field) == IF TruthyField(field) THEN field ELSE Unset

\* Adapter.toRestReleaseModification: the fields of the payload, set or not
toRestReleaseModification(legacyCodePushReleaseInfo) ==
    [target_binary_range |-> CopiedIfTruthy(legacyCodePushReleaseInfo.appVersion),
     is_disabled |-> CopiedIfTruthy(legacyCodePushReleaseInfo.isDisabled),
     is_mandatory |-> CopiedIfTruthy(legacyCodePushReleaseInfo.isMandatory),
     description |-> CopiedIfTruthy(legacyCodePushReleaseInfo.description),
     rollout |-> CopiedIfTruthy(legacyCodePushReleaseInfo.rollout),
     label |-> CopiedIfTruthy(legacyCodePushReleaseInfo.label)]

\* the apps of the arrays whose fetches are followed one by one, and what a
\* fetch of the deployments of an app answers with (the names) or fails with
FetchedApps ==
    {a \in ListedApps : a.owner.id \in {"u1", "u2"} /\ a.name \in {<<"a">>, <<"B">>}
                            /\ ~(a.owner.id = "u2" /\ a.name = <<"B">>)}
DeploymentLists == {<<"Staging">>, <<"Production", "Staging">>}
FetchError == [message |-> "Text", statusCode |-> ERROR_NOT_FOUND]
FetchPending == [threw |-> FALSE, value |-> <<"pending">>]

\* legacyApps giving every app the deployments of the first fetch
legacyApps_FirstFetchForAll(sortedApps, callingUser, fetched) ==
    [i \in 1..Len(sortedApps) |-> toLegacyRestApp(sortedApps[i], callingUser, fetched[1].value)]

\* Adapter.toLegacyApps: legacyApps, the value of the Promise.all over
\* sortedApps.map(async app => toLegacyRestApp(app, user, names of getDeployments(app)))
legacyApps(sortedApps, callingUser, fetched) ==
    [i \in 1..Len(sortedApps) |-> toLegacyRestApp(sortedApps[i], callingUser, fetched[i].value)]

\* updatedApp renaming the display name whatever the existing app
updatedApp_Both(app, newName) ==
    [name |-> newName, display_name |-> [defined |-> TRUE, text |-> newName]]

\* Adapter.getRenamedApp: const updatedApp = app.name === app.display_name
\*     ? {name: newName, display_name: newName} : {name: newName}
updatedApp(app, newName) ==
    IF app.display_name.defined /\ app.name = app.display_name.text
    THEN [name |-> newName, display_name |-> [defined |-> TRUE, text |-> newName]]
    ELSE [name |-> newName, display_name |-> [defined |-> FALSE, text |-> << >>]]

-----------------------------------------------------------------------------
(* The mapping functions called on their own *)

\* the adapter of a constructed manager
MappingInit ==
    /\ variant \in {1, 2}
    /\ op = Idle
    /\ pc = "idle"
    /\ user = NoUser
    /\ params = NoParams
    /\ log = << >>
    /\ result = Pending
    /\ packageFile = NoPackageFile
    /\ mapping = NoMapping
    /\ accessKey = "key"

CallToLegacyAccessKeyList ==
    /\ mapping.fn = "none"
    /\ \E apiTokens \in Arrays(ApiTokens) :
          mapping' = [fn |-> "toLegacyAccessKeyList", arg |-> apiTokens,
                      returned |-> Returned(toLegacyAccessKeyList(apiTokens))]
    /\ UNCHANGED <<variant, op, pc, user, params, log, result, packageFile, accessKey>>

CallReleaseToPackage ==
    /\ mapping.fn = "none"
    /\ \E release \in CodePushReleases \cup {NullRelease, UndefinedRelease} :
          mapping' = [fn |-> "releaseToPackage", arg |-> release,
                      returned |-> releaseToPackage(release)]
    /\ UNCHANGED <<variant, op, pc, user, params, log, result, packageFile, accessKey>>

CallToLegacyDeploymentHistory ==
    /\ mapping.fn = "none"
    /\ \E releases \in Arrays(LatestReleases) :
          mapping' = [fn |-> "toLegacyDeploymentHistory", arg |-> releases,
                      returned |-> toLegacyDeploymentHistory(releases)]
    /\ UNCHANGED <<variant, op, pc, user, params, log, result, packageFile, accessKey>>

CallToLegacyDeployment ==
    /\ mapping.fn = "none"
    /\ \E deployment \in BackendDeployments :
          mapping' = [fn |-> "toLegacyDeployment", arg |-> deployment,
                      returned |-> Returned(toLegacyDeployment(deployment))]
    /\ UNCHANGED <<variant, op, pc, user, params, log, result, packageFile, accessKey>>

CallToLegacyDeployments ==
    /\ mapping.fn = "none"
    /\ \E deployments \in Arrays(BackendDeployments) :
          mapping' = [fn |-> "toLegacyDeployments", arg |-> deployments,
                      returned |-> Returned(toLegacyDeployments(deployments))]
    /\ UNCHANGED <<variant, op, pc, user, params, log, result, packageFile, accessKey>>

\* toLegacyApp once getUser and getDeployments have answered: toLegacyRestApp
CallToLegacyRestApp ==
    /\ mapping.fn = "none"
    /\ \E app \in BackendApps, callingUser \in CallingUsers :
          mapping' = [fn |-> "toLegacyRestApp", arg |-> [app |-> app, user |-> callingUser],
                      returned |-> Returned(toLegacyRestApp(app, callingUser, DeploymentNames))]
    /\ UNCHANGED <<variant, op, pc, user, params, log, result, packageFile, accessKey>>

\* toLegacyApps: getUser or a getDeployments may fail, which rejects the call
CallToLegacyApps ==
    /\ mapping.fn = "none"
    /\ \E apps \in Arrays(ListedApps), callingUser \in CallingUsers, failed \in BOOLEAN :
          mapping' = [fn |-> "toLegacyApps", arg |-> [apps |-> apps, user |-> callingUser],
                      returned |-> IF failed THEN Threw(<< >>)
                                   ELSE Returned(toLegacyApps(apps, callingUser))]
    /\ UNCHANGED <<variant, op, pc, user, params, log, result, packageFile, accessKey>>

\* toApigatewayAppCreationRequest throws a CodePushError or returns the request
CallToApigatewayAppCreationRequest ==
    /\ mapping.fn = "none"
    /\ \E name \in CreationNames, os \in CreationOs, platform \in CreationPlatforms :
          LET error == toApigatewayAppCreationRequest(name, os, platform)
          IN  mapping' = [fn |-> "toApigatewayAppCreationRequest",
                          arg |-> [name |-> name, os |-> os, platform |-> platform],
                          returned |-> IF error # NoError
                                       THEN Threw(error)
                                       ELSE Returned(ApigatewayAppCreationRequest(name, os, platform))]
    /\ UNCHANGED <<variant, op, pc, user, params, log, result, packageFile, accessKey>>

\* getRenamedApp: getApp may fail, which rejects the call; app is the body of
\* its response otherwise
CallGetRenamedApp ==
    /\ mapping.fn = "none"
    /\ \E app \in BackendApps, newName \in NewNames, failed \in BOOLEAN :
          mapping' = [fn |-> "getRenamedApp",
                      arg |-> [app |-> app, newName |-> newName, failed |-> failed],
                      returned |-> IF failed THEN Threw(<< >>)
                                   ELSE IF getRenamedApp(newName) # NoError
                                        THEN Threw(getRenamedApp(newName))
                                        ELSE Returned(updatedApp(app, newName))]
    /\ UNCHANGED <<variant, op, pc, user, params, log, result, packageFile, accessKey>>

\* RequestManager.makeApiRequest: the settlement of its promise for an answer
CallMakeApiRequest ==
    /\ mapping.fn = "none"
    /\ \E expectResponseBody \in BOOLEAN, res \in Responses :
          mapping' = [fn |-> "makeApiRequest",
                      arg |-> [expectResponseBody |-> expectResponseBody, res |-> res],
                      returned |-> Returned(makeApiRequest(expectResponseBody, res))]
    /\ UNCHANGED <<variant, op, pc, user, params, log, result, packageFile, accessKey>>

\* toLegacyApps up to its map: await getUser (a failure rejects the call), sort
\* the apps, issue one getDeployments per app in the sorted order
BeginToLegacyApps ==
    /\ mapping.fn = "none"
    /\ \E apps \in Arrays(FetchedApps), callingUser \in {u \in CallingUsers : u.id = "u1"},
          userFailed \in BOOLEAN :
          LET sortedApps == Sort(apps, [i, j \in 1..Len(apps) |-> CompareApps(apps[i], apps[j])])
              start == [userOk |-> ~userFailed,
                        issued |-> IF userFailed THEN << >> ELSE sortedApps,
                        fetched |-> IF userFailed THEN << >>
                                    ELSE [i \in 1..Len(apps) |-> FetchPending],
                        first |-> 0]
          IN  mapping' =
                IF userFailed
                THEN [fn |-> "toLegacyApps settled",
                      arg |-> [apps |-> apps, user |-> callingUser, fetches |-> start],
                      returned |-> Threw(FetchError)]
                ELSE IF apps = << >>
                THEN [fn |-> "toLegacyApps settled",
                      arg |-> [apps |-> apps, user |-> callingUser, fetches |-> start],
                      returned |-> Returned(<< >>)]
                ELSE [fn |-> "toLegacyApps fetching",
                      arg |-> [apps |-> apps, user |-> callingUser, fetches |-> start],
                      returned |-> << >>]
    /\ UNCHANGED <<variant, op, pc, user, params, log, result, packageFile, accessKey>>

\* one of the getDeployments in flight is answered, in any order: a failure
\* rejects the Promise.all at once; the last success resolves it
FetchAnswered ==
    /\ mapping.fn = "toLegacyApps fetching"
    /\ \E i \in 1..Len(mapping.arg.fetches.issued) :
          /\ mapping.arg.fetches.fetched[i] = FetchPending
          /\ \E failed \in BOOLEAN, list \in DeploymentLists :
                LET outcome == IF failed THEN Threw(FetchError) ELSE Returned(list)
                    fetches == mapping.arg.fetches
                    fetched == [fetches.fetched EXCEPT ![i] = outcome]
                    now == [fetches EXCEPT !.fetched = fetched,
                                           !.first = IF fetches.first = 0 THEN i ELSE fetches.first]
                    arg == [mapping.arg EXCEPT !.fetches = now]
                IN  mapping' =
                      IF outcome.threw
                      THEN [fn |-> "toLegacyApps settled", arg |-> arg,
                            returned |-> Threw(FetchError)]
                      ELSE IF \A j \in 1..Len(fetched) : fetched[j] # FetchPending
                      THEN [fn |-> "toLegacyApps settled", arg |-> arg,
                            returned |-> Returned(legacyApps(fetches.issued, mapping.arg.user, fetched))]
                      ELSE [mapping EXCEPT !.arg = arg]
    /\ UNCHANGED <<variant, op, pc, user, params, log, result, packageFile, accessKey>>

CallToRestReleaseModification ==
    /\ mapping.fn = "none"
    /\ \E info \in PackageInfos :
          mapping' = [fn |-> "toRestReleaseModification", arg |-> info,
                      returned |-> Returned(toRestReleaseModification(info))]
    /\ UNCHANGED <<variant, op, pc, user, params, log, result, packageFile, accessKey>>

\* toLegacyCollaborators: getUser may fail, which rejects the call
CallToLegacyCollaborators ==
    /\ mapping.fn = "none"
    /\ \E userList \in UserLists, appOwner \in {<<"a">>, <<"B">>},
          callingUser \in CallingProfiles, failed \in BOOLEAN :
          mapping' = [fn |-> "toLegacyCollaborators",
                      arg |-> [userList |-> userList, appOwner |-> appOwner, user |-> callingUser],
                      returned |-> IF failed THEN Threw(<< >>)
                                   ELSE Returned(toLegacyCollaborators(userList, appOwner, callingUser))]
    /\ UNCHANGED <<variant, op, pc, user, params, log, result, packageFile, accessKey>>

\* the caller has the result
MappingReturn ==
    /\ mapping.fn \notin {"none", "toLegacyApps fetching"}
    /\ mapping' = NoMapping
    /\ UNCHANGED <<variant, op, pc, user, params, log, result, packageFile, accessKey>>

MappingNext ==
    \/ CallToLegacyAccessKeyList
    \/ CallReleaseToPackage
    \/ CallToLegacyDeploymentHistory
    \/ CallToLegacyDeployment
    \/ CallToLegacyDeployments
    \/ CallToLegacyRestApp
    \/ CallToLegacyApps
    \/ CallToApigatewayAppCreationRequest
    \/ CallToRestReleaseModification
    \/ CallGetRenamedApp
    \/ CallMakeApiRequest
    \/ BeginToLegacyApps
    \/ FetchAnswered
    \/ CallToLegacyCollaborators
    \/ MappingReturn

MappingSpec == MappingInit /\ [][MappingNext]_vars

-----------------------------------------------------------------------------
(* Vocabulary of the properties *)

Qualified(identifier) == Includes(identifier, "/")

\* an identifier whose pieces between separators are all non-empty
NoEmptyPiece(identifier) ==
    \A i \in 1..Len(Split(identifier, "/")) : Split(identifier, "/")[i] # << >>

\* an identifier of the form owner/app: one separator between two non-empty names
OwnerSlashApp(identifier) ==
    Len(Split(identifier, "/")) = 2 /\ NoEmptyPiece(identifier)

IsUserLookup(e) == e.method = "get" /\ e.path = UserPath

UserLookups(l) == Cardinality({i \in 1..Len(l) : IsUserLookup(l[i])})

\* the operations that call Adapter.parseApiAppName
UsesResolver == op.name \in ResolverOps(variant) \cup {"addApp"}

\* parseApiAppName has just returned: no later step of the operation has run
ResolutionEnded == UsesResolver /\ params.set /\ pc = AfterParse(op.name)

\* the first current-user lookup of an operation that uses the resolver is the resolver's
FirstLookup == CHOOSE i \in 1..Len(log) : IsUserLookup(log[i]) /\ \A j \in 1..(i - 1) : ~IsUserLookup(log[j])

ResolutionLookupFailed ==
    /\ UsesResolver
    /\ \E i \in 1..Len(log) : IsUserLookup(log[i])
    /\ ~log[FirstLookup].ok

-----------------------------------------------------------------------------
(* The name resolver *)

\* C1: when parseApiAppName returns for a qualified identifier owner/app, no
\* current-user lookup (GET /user) has been issued by the resolution.
C1_QualifiedResolutionIssuesNoLookup ==
    (ResolutionEnded /\ OwnerSlashApp(op.app)) => UserLookups(log) = 0

\* C2: when parseApiAppName returns for an identifier without the separator,
\* exactly one current-user lookup has been issued, appOwner is the name of the
\* user that lookup returned and appName is the whole identifier.
C2_UnqualifiedResolution ==
    (ResolutionEnded /\ ~Qualified(op.app)) =>
        /\ UserLookups(log) = 1
        /\ log[FirstLookup].ok
        /\ user.known
        /\ params.appOwner = user.name
        /\ params.appName = op.app

C2_Witness ==
    /\ ResolutionEnded
    /\ ~Qualified(op.app)
    /\ op.name = "getDeployments"
    /\ op.app = <<"a", "a">>
    /\ params.appOwner = <<"u">>

\* C3: for an identifier that contains the separator (one or more times, here
\* between non-empty names), appOwner is the text before the first separator and
\* appName is everything after it, so that appOwner + "/" + appName is the identifier.
C3_SplitAtFirstSeparator ==
    (ResolutionEnded /\ Qualified(op.app) /\ NoEmptyPiece(op.app)) =>
        /\ params.appOwner = SubstringTo(op.app, 0, IndexOf(op.app, "/"))
        /\ params.appName = SubstringFrom(op.app, IndexOf(op.app, "/") + 1)
        /\ params.appOwner \o <<"/">> \o params.appName = op.app

-----------------------------------------------------------------------------
(* release *)

LastToken(path) == IF path = << >> THEN "" ELSE path[Len(path)]

IsUploadsRequest(e) == e.method = "post" /\ LastToken(e.path) = "uploads"
IsCommitRequest(e) == e.method = "post" /\ LastToken(e.path) = "releases"
IsAssetUpload(e) == e.method = "upload"
IsArchiveCreation(e) == e.method = "zip" /\ e.ok

\* some entry before position i of the log satisfies P and succeeded
Before(i, P(_)) == \E j \in 1..(i - 1) : P(log[j]) /\ log[j].ok

\* C4: in release the commit POST is issued only after the asset upload succeeded,
\* the asset upload only after the placeholder POST succeeded, the placeholder
\* POST only after the owner lookup succeeded; a step that fails is the last step
\* of the operation, which rejects with that step's error.
C4_ReleasePipelineOrder ==
    op.name = "release" =>
        \A i \in 1..Len(log) :
            /\ IsCommitRequest(log[i]) => Before(i, IsAssetUpload)
            /\ IsAssetUpload(log[i]) => Before(i, IsUploadsRequest)
            /\ IsUploadsRequest(log[i]) => Before(i, IsUserLookup)
            /\ ~log[i].ok => /\ i = Len(log)
                             /\ pc = "done"
                             /\ result = Rejected(log[i].error)

C4_Witness ==
    /\ op.name = "release"
    /\ pc = "done"
    /\ \E i \in 1..Len(log) : IsCommitRequest(log[i]) /\ ~log[i].ok
    /\ result.kind = "rejected"

\* C5: release of a directory that was packaged has created exactly one temporary
\* archive and, once the operation has settled, the archive no longer exists.
C5_ArchiveDeletedOnEveryExit ==
    (op.name = "release" /\ op.dir /\ packageFile.set /\ pc = "done") =>
        /\ Cardinality({i \in 1..Len(log) : IsArchiveCreation(log[i])}) = 1
        /\ ~packageFile.exists

-----------------------------------------------------------------------------
(* Addressing *)

\* a request to the backend that is neither the current-user lookup nor the app creation
IsAppRequest(e) ==
    /\ e.method \in {"get", "post", "patch", "del"}
    /\ ~IsUserLookup(e)
    /\ e.path # <<"/", "apps">>
    /\ Segments(e.path)[2] # <<"orgs">>

\* C6: every request of an operation that takes an app identifier goes to
\* /apps/{owner}/{app}/..., owner and app being separate path segments and the
\* ones of the name resolver: for owner/app the given owner and app, for a bare
\* name the app (and the current user the operation looked up).
C6_AddressedByOwnerAndApp ==
    (op.name \in AppOps /\ (OwnerSlashApp(op.app) \/ ~Qualified(op.app))) =>
        \A i \in 1..Len(log) :
            IsAppRequest(log[i]) =>
                LET seg == Segments(log[i].path)
                    want == parseApiAppName(op.app, user.name)
                IN  /\ Len(seg) >= 4
                    /\ seg[2] = <<"apps">>
                    /\ Decode(seg[4]) = want.appName
                    /\ (Qualified(op.app) \/ user.known) => Decode(seg[3]) = want.appOwner

-----------------------------------------------------------------------------
(* isAuthenticated, deprecated operations *)

LookupFailedWith401 ==
    /\ op.name = "isAuthenticated"
    /\ pc = "done"
    /\ ~log[1].ok
    /\ log[1].error.statusCode = ERROR_UNAUTHORIZED

LookupFailedOtherwise ==
    /\ op.name = "isAuthenticated"
    /\ pc = "done"
    /\ ~log[1].ok
    /\ log[1].error.statusCode # ERROR_UNAUTHORIZED

\* C7: when the lookup of isAuthenticated fails with status 401, the operation
\* resolves with false if throwIfUnauthorized is false or omitted and rejects
\* with that error if it is true.
C7_UnauthorizedIsFalseUnlessAsked ==
    LookupFailedWith401 =>
        IF Truthy(op.flag) THEN result = Rejected(log[1].error)
                           ELSE result = Resolved("false")

\* C8: when the lookup of isAuthenticated fails with a status other than 401,
\* the operation rejects with that error whatever throwIfUnauthorized is.
C8_OtherErrorsPropagate ==
    LookupFailedOtherwise => result = Rejected(log[1].error)

C8_Witness ==
    /\ LookupFailedOtherwise
    /\ variant = 2
    /\ op.flag = "false"
    /\ log[1].error.statusCode = ERROR_GATEWAY_TIMEOUT
    /\ result.kind = "rejected"

\* C9: getAccessKey, getSessions, patchAccessKey and removeSession fail with
\* {message: 'Method is deprecated', statusCode: 404} and issue no request.
C9_DeprecatedFailWithoutRequest ==
    (op.name \in DeprecatedOps /\ pc = "done") =>
        /\ result.kind \in {"thrown", "rejected"}
        /\ result.error = Deprecated
        /\ log = << >>

-----------------------------------------------------------------------------
(* Failure of the lookup of the name resolution *)

\* C10 as stated: when the current-user lookup of the name resolution fails, the
\* operation rejects with that error and the failed lookup is its only request.
C10_LookupFailureBeforeAnyRequest ==
    ResolutionLookupFailed =>
        /\ pc = "done"
        /\ result = Rejected(log[FirstLookup].error)
        /\ Len(log) = 1

\* C10 amended: the operation rejects with that error and issues no request
\* after the failed lookup; the lookup is the only request of every operation
\* but addApp, which has sent its creation POST (and nothing else) before it
\* resolves the name for the standard deployments.
C10_LookupFailureStopsOperation ==
    ResolutionLookupFailed =>
        /\ pc = "done"
        /\ result = Rejected(log[FirstLookup].error)
        /\ FirstLookup = Len(log)
        /\ IF op.name = "addApp"
           THEN Len(log) = 2 /\ log[1].method = "post" /\ log[1].ok
                /\ log[1].path = AddAppPath(getOrgFromLegacyAppRequest(op.app))
           ELSE Len(log) = 1

C10_Witness ==
    /\ ResolutionLookupFailed
    /\ op.name = "removeApp"
    /\ OwnerSlashApp(op.app)
    /\ result.error.statusCode = ERROR_UNAUTHORIZED

-----------------------------------------------------------------------------
(* Propagation of the errors of the backend *)

\* the operations the test "methods reject the promise with status code info" calls
ErrorHandlingOps ==
    {"addApp", "getApp", "renameApp", "removeApp", "transferApp",
     "addDeployment", "getDeployment", "getDeployments", "renameDeployment", "removeDeployment",
     "addCollaborator", "getCollaborators", "removeCollaborator",
     "patchRelease", "promote", "rollback"}

\* the backend answered the request with an error status
AnsweredWithError(e) == e.status \in ErrorStatuses

\* the error the backend's answer to the request carries
BackendError(e) == [message |-> e.msg, statusCode |-> e.status]

FailedRequests == {i \in 1..Len(log) : ~log[i].ok}

\* C11 as stated: when the backend answers a request of the operation with an
\* error status, the operation is rejected, and rejected with the message and the
\* status of such an answer.
C11_RejectsWithBackendError ==
    (op.name \in ErrorHandlingOps /\ \E i \in 1..Len(log) : AnsweredWithError(log[i])) =>
        /\ pc = "done"
        /\ result.kind = "rejected"
        /\ \E i \in 1..Len(log) : AnsweredWithError(log[i]) /\ result.error = BackendError(log[i])

\* C11 amended: a request answered with an error status fails with the message and
\* the status of the answer; the operation settles then, rejected (never resolved)
\* with the unchanged error of one of its failed requests, which is that request
\* unless a request in flight together with it (Promise.all) failed too.
C11_RejectsWithErrorOfFailedRequest ==
    (op.name \in ErrorHandlingOps /\ \E i \in 1..Len(log) : AnsweredWithError(log[i])) =>
        /\ \A i \in 1..Len(log) :
                AnsweredWithError(log[i]) => ~log[i].ok /\ log[i].error = BackendError(log[i])
        /\ pc = "done"
        /\ result.kind = "rejected"
        /\ \E i \in FailedRequests : result.error = log[i].error
        /\ \A i \in FailedRequests : i >= Len(log) - 1
        /\ Cardinality(FailedRequests) = 1 =>
                \E i \in FailedRequests : result.error = BackendError(log[i])

C11_Witness ==
    /\ op.name = "promote"
    /\ pc = "done"
    /\ Len(log) = 1
    /\ log[1].status = ERROR_NOT_FOUND
    /\ log[1].msg = "Text"
    /\ result = Rejected([message |-> "Text", statusCode |-> ERROR_NOT_FOUND])

-----------------------------------------------------------------------------
(* Validation *)

ValidOs == {"iOS", "Android", "Windows", "Linux"}
ValidPlatforms == {"React-Native", "Cordova", "Electron"}

\* a name of 1 to 1000 characters, each a letter, a digit, '.', '_' or '-'
ValidName(name) ==
    /\ name # << >>
    /\ Len(name) <= MaxAppNameLength
    /\ \A i \in 1..Len(name) : name[i] \notin {"/", "$", "~", "%2F"}

\* the name of the app in an addApp request: what follows the org and the first "/"
AppPart(name) ==
    IF Qualified(name)
    THEN SubSeq(name, 1 + (CHOOSE i \in 1..Len(name) :
                                name[i] = "/" /\ \A j \in 1..(i - 1) : name[j] # "/"), Len(name))
    ELSE name

InvalidAddApp ==
    /\ op.name = "addApp"
    /\ pc # "addApp"
    /\ \/ op.os \notin ValidOs
       \/ op.platform \notin ValidPlatforms
       \/ ~ValidName(AppPart(op.app))

\* C12: addApp with an os, a platform or an app name that is not valid is rejected
\* with a Conflict error (409) and has issued no request at all.
C12_InvalidAddAppIssuesNoRequest ==
    InvalidAddApp =>
        /\ pc = "done"
        /\ result.kind = "rejected"
        /\ result.error.statusCode = ERROR_CONFLICT
        /\ log = << >>

C12_Witness ==
    /\ InvalidAddApp
    /\ op.os = "iOS"
    /\ op.platform = "Flash"
    /\ ValidName(AppPart(op.app))
    /\ result.error.statusCode = ERROR_CONFLICT
    /\ log = << >>

InvalidNewName == op.name = "renameApp" /\ (Qualified(op.newName) \/ ~ValidName(op.newName))

\* C13: renameApp with a new name that contains the separator or is not a valid
\* name issues no request: no current-user lookup, no fetch of the app, no PATCH.
C13_InvalidRenameIssuesNoRequest ==
    InvalidNewName => log = << >>

\* C14: renameApp with a new name that contains the separator or is not a valid
\* name fails with a Conflict error (409) and the PATCH is never sent.
C14_InvalidRenameIsConflict ==
    (InvalidNewName /\ pc = "done") =>
        /\ result.kind = "rejected"
        /\ result.error.statusCode = ERROR_CONFLICT
        /\ \A i \in 1..Len(log) : log[i].method # "patch"

-----------------------------------------------------------------------------
(* Packages *)

\* the rollout a Package is to carry for the rollout of the backend's release
DefaultedRollout(rollout) ==
    IF rollout.kind \in {"undefined", "null"} THEN Number(100) ELSE rollout

\* the deployment of the argument that the i-th deployment returned was mapped from
MappedFrom(deployments, mapped) ==
    CHOOSE d \in {deployments[j] : j \in 1..Len(deployments)} :
        d.name = mapped.name /\ d.key = mapped.key
            /\ (d.latest_release.kind = "object") = (mapped.package.kind = "object")
            /\ (d.latest_release.kind = "object" =>
                    d.latest_release.rollout.kind = "undefined"
                        <=> mapped.package.rollout.kind = "undefined")

\* C15: every Package built from a release of the backend (directly, in a
\* deployment, in a list of deployments, in a deployment history) has rollout 100
\* when the release's rollout is undefined or null, and the release's rollout otherwise.
C15_RolloutDefaultsTo100 ==
    /\ (mapping.fn = "releaseToPackage" /\ mapping.arg.kind = "object") =>
            /\ ~mapping.returned.threw
            /\ mapping.returned.value.rollout = DefaultedRollout(mapping.arg.rollout)
    /\ (mapping.fn = "toLegacyDeployment" /\ mapping.arg.latest_release.kind = "object") =>
            mapping.returned.value.package.rollout
                = DefaultedRollout(mapping.arg.latest_release.rollout)
    /\ mapping.fn = "toLegacyDeployments" =>
            \A i \in 1..Len(mapping.returned.value) :
                LET from == MappedFrom(mapping.arg, mapping.returned.value[i])
                IN  from.latest_release.kind = "object" =>
                        mapping.returned.value[i].package.rollout
                            = DefaultedRollout(from.latest_release.rollout)
    /\ (mapping.fn = "toLegacyDeploymentHistory" /\ ~mapping.returned.threw) =>
            \A i \in 1..Len(mapping.arg) :
                mapping.returned.value[i].rollout = DefaultedRollout(mapping.arg[i].rollout)

\* C16: releaseToPackage of a null release returns null and does not throw; a
\* deployment whose latest_release is null or absent maps to a Deployment whose
\* package is null.
C16_NullReleasePassesThrough ==
    /\ (mapping.fn = "releaseToPackage" /\ mapping.arg.kind = "null") =>
            /\ ~mapping.returned.threw
            /\ mapping.returned.value.kind = "null"
    /\ (mapping.fn = "toLegacyDeployment" /\ mapping.arg.latest_release.kind # "object") =>
            /\ ~mapping.returned.threw
            /\ mapping.returned.value.package.kind = "null"

-----------------------------------------------------------------------------
(* Lists *)

\* the elements of the array
Range(array) == {array[i] : i \in 1..Len(array)}

\* how many elements of the array are in the set
Count(array, set) == Cardinality({i \in 1..Len(array) : array[i] \in set})

\* the creation time an access key is ordered by: 0 when it is missing or no date
TimeOrZero(listed) == IF listed.createdTime.nan THEN 0 ELSE listed.createdTime.ms

\* C17: for every array of tokens, in every order, toLegacyAccessKeyList returns
\* one access key per token, with the token's creation time and description, in
\* ascending order of the creation time, a missing or unparseable time counting
\* as 0; no access key has a key.
C17_AccessKeysSortedByCreatedTime ==
    mapping.fn = "toLegacyAccessKeyList" =>
        LET apiTokens == mapping.arg
            accessKeys == mapping.returned.value
        IN  /\ ~mapping.returned.threw
            /\ Len(accessKeys) = Len(apiTokens)
            /\ \A c \in CreatedAtValues :
                  Count(accessKeys, {k \in Range(accessKeys) :
                                        k.createdTime = DateParse(c) /\ k.name = "k"})
                      = Count(apiTokens, {t \in ApiTokens : DateParse(t.created_at) = DateParse(c)})
            /\ \A i \in 1..(Len(accessKeys) - 1) :
                  TimeOrZero(accessKeys[i]) <= TimeOrZero(accessKeys[i + 1])
            /\ \A i \in 1..Len(accessKeys) : "key" \notin DOMAIN accessKeys[i]

C17_Witness ==
    /\ mapping.fn = "toLegacyAccessKeyList"
    /\ Len(mapping.arg) = 3
    /\ mapping.arg[1].created_at = "1970-01-01T00:00:00.002Z"
    /\ mapping.arg[2].created_at = "undefined"
    /\ mapping.arg[3].created_at = "1969-12-31T23:59:59.999Z"
    /\ mapping.returned.value[1].createdTime.ms = -1
    /\ mapping.returned.value[2].createdTime.nan
    /\ mapping.returned.value[3].createdTime.ms = 2

\* C18: for every array of deployments, in every order, toLegacyDeployments
\* returns one deployment per deployment given, with its name and key, in
\* ascending order of the names (the order of localeCompare).
C18_DeploymentsSortedByName ==
    mapping.fn = "toLegacyDeployments" =>
        LET given == mapping.arg
            deployments == mapping.returned.value
        IN  /\ ~mapping.returned.threw
            /\ Len(deployments) = Len(given)
            /\ \A n \in Names :
                  Count(deployments, {d \in Range(deployments) :
                                         d.name = n /\ d.key = <<"key">> \o n})
                      = Count(given, {d \in Range(given) : d.name = n /\ d.key = <<"key">> \o n})
            /\ \A i \in 1..(Len(deployments) - 1) :
                  localeCompare(deployments[i].name, deployments[i + 1].name) <= 0

C18_Witness ==
    /\ mapping.fn = "toLegacyDeployments"
    /\ Len(mapping.arg) = 3
    /\ mapping.arg[1].name = <<"B">>
    /\ mapping.arg[2].name = <<"a", "b">>
    /\ mapping.arg[3].name = <<"a">>
    /\ mapping.returned.value[1].name = <<"a">>
    /\ mapping.returned.value[2].name = <<"a", "b">>
    /\ mapping.returned.value[3].name = <<"B">>

\* the apps are in the order owner first, name second
OrderedByOwnerThenName(apps) ==
    \A i \in 1..(Len(apps) - 1) :
        \/ localeCompare(apps[i].owner.name, apps[i + 1].owner.name) < 0
        \/ /\ apps[i].owner.name = apps[i + 1].owner.name
           /\ localeCompare(apps[i].name, apps[i + 1].name) <= 0

\* C19: for every array of apps, in every order, toLegacyApps returns the mapping
\* of each app given, once each, in the order of the owners' names and, for one
\* owner, of the apps' names.
C19_AppsSortedByOwnerThenName ==
    (mapping.fn = "toLegacyApps" /\ ~mapping.returned.threw) =>
        LET given == mapping.arg.apps
            n == Len(given)
            apps == mapping.returned.value
        IN  /\ Len(apps) = n
            /\ \E p \in [1..n -> 1..n] :
                  /\ \A i, j \in 1..n : i # j => p[i] # p[j]
                  /\ OrderedByOwnerThenName([i \in 1..n |-> given[p[i]]])
                  /\ \A i \in 1..n :
                        apps[i] = toLegacyRestApp(given[p[i]], mapping.arg.user, DeploymentNames)

C19_Witness ==
    /\ mapping.fn = "toLegacyApps"
    /\ ~mapping.returned.threw
    /\ Len(mapping.arg.apps) = 3
    /\ mapping.arg.user.id = "u1"
    /\ mapping.arg.apps[1].owner.name = <<"B">> /\ mapping.arg.apps[1].name = <<"a">>
    /\ mapping.arg.apps[2].owner.name = <<"a">> /\ mapping.arg.apps[2].name = <<"B">>
    /\ mapping.arg.apps[3].owner.name = <<"a">> /\ mapping.arg.apps[3].name = <<"a">>
    /\ mapping.returned.value[1].name = <<"a">>
    /\ mapping.returned.value[2].name = <<"B", " ", " ", "(", "a", ")">>
    /\ mapping.returned.value[3].name = <<"B", "/", "a">>

\* C20: the name toLegacyRestApp gives an app is the app's name when the calling
\* user's id is the owner's id and owner/name otherwise, followed by
\* " (display_name)" exactly when display_name differs from the name.
C20_AppNameQualifiedAndSuffixed ==
    mapping.fn = "toLegacyRestApp" =>
        LET app == mapping.arg.app
            base == IF mapping.arg.user.id = app.owner.id
                    THEN app.name
                    ELSE app.owner.name \o <<"/">> \o app.name
            differs == ~(app.display_name.defined /\ app.display_name.text = app.name)
        IN  mapping.returned.value.name =
                IF differs
                THEN base \o <<" ", "(">> \o DisplayText(app.display_name) \o <<")">>
                ELSE base

-----------------------------------------------------------------------------
(* Collaborators *)

\* the owner of that name
OwnerNamed(name) == CHOOSE o \in Owners : o.name = name

\* the collaborators of an app: one entry, of an owner, with permission Owner,
\* marked as the current account iff the calling user is that owner
OwnerIsOnlyCollaborator(collaborators, callingUser) ==
    /\ Cardinality(DOMAIN collaborators) = 1
    /\ \A account \in DOMAIN collaborators :
          /\ account \in {o.name : o \in Owners}
          /\ collaborators[account].permission = "Owner"
          /\ collaborators[account].isCurrentAccount = (callingUser.id = OwnerNamed(account).id)

\* C21: the collaborators of every App returned by toLegacyRestApp (toLegacyApp)
\* and by toLegacyApps are one entry, keyed by the name of the app's owner, whose
\* permission is Owner and whose isCurrentAccount is true iff the calling user's
\* id is the owner's id.
C21_OwnerIsTheOnlyCollaborator ==
    /\ mapping.fn = "toLegacyRestApp" =>
          /\ DOMAIN mapping.returned.value.collaborators = {mapping.arg.app.owner.name}
          /\ OwnerIsOnlyCollaborator(mapping.returned.value.collaborators, mapping.arg.user)
    /\ (mapping.fn = "toLegacyApps" /\ ~mapping.returned.threw) =>
          \A i \in 1..Len(mapping.returned.value) :
              /\ DOMAIN mapping.returned.value[i].collaborators
                    \subseteq {mapping.arg.apps[j].owner.name : j \in 1..Len(mapping.arg.apps)}
              /\ OwnerIsOnlyCollaborator(mapping.returned.value[i].collaborators, mapping.arg.user)

C21_Witness ==
    /\ mapping.fn = "toLegacyApps"
    /\ ~mapping.returned.threw
    /\ mapping.arg.user.id = "u2"
    /\ Len(mapping.returned.value) = 2
    /\ DOMAIN mapping.returned.value[1].collaborators = {<<"a">>}
    /\ DOMAIN mapping.returned.value[2].collaborators = {<<"B">>}
    /\ ~mapping.returned.value[1].collaborators[<<"a">>].isCurrentAccount
    /\ mapping.returned.value[2].collaborators[<<"B">>].isCurrentAccount

\* the permission the claim gives a user of that role and name
PermissionOf(role, name, appOwner) ==
    CASE role = "manager" /\ name = appOwner -> "Owner"
      [] role = "manager" /\ name # appOwner -> "Manager"
      [] role = "developer" -> "Collaborator"
      [] OTHER -> "Reader"

\* C22: toLegacyCollaborators returns one entry per user of the list, keyed by
\* the user's email, whose permission is Owner for a manager whose name is
\* appOwner, Manager for another manager, Collaborator for a developer and Reader
\* for every other role, and whose isCurrentAccount is true iff the user's email
\* is the email of the calling user.
C22_CollaboratorsByEmail ==
    (mapping.fn = "toLegacyCollaborators" /\ ~mapping.returned.threw) =>
        LET userList == mapping.arg.userList
            collaborators == mapping.returned.value
        IN  /\ DOMAIN collaborators = {userList[i].email : i \in 1..Len(userList)}
            /\ \A i \in 1..Len(userList) :
                  /\ collaborators[userList[i].email].permission
                        = PermissionOf(userList[i].permissions[1], userList[i].name,
                                       mapping.arg.appOwner)
                  /\ collaborators[userList[i].email].isCurrentAccount
                        = (userList[i].email = mapping.arg.user.email)

C22_Witness ==
    /\ mapping.fn = "toLegacyCollaborators"
    /\ ~mapping.returned.threw
    /\ mapping.arg.appOwner = <<"a">>
    /\ mapping.arg.user.email = "m1"
    /\ Len(mapping.arg.userList) = 2
    /\ mapping.arg.userList[1] = [email |-> "m2", name |-> <<"B">>, permissions |-> <<"manager">>]
    /\ mapping.arg.userList[2] = [email |-> "m1", name |-> <<"a">>, permissions |-> <<"manager">>]
    /\ mapping.returned.value["m2"] = [isCurrentAccount |-> FALSE, permission |-> "Manager"]
    /\ mapping.returned.value["m1"] = [isCurrentAccount |-> TRUE, permission |-> "Owner"]

-----------------------------------------------------------------------------
(* Requests built by the adapter *)

\* the org of an addApp name: what precedes the first "/"
OrgPart(name) == SubSeq(name, 1, Len(name) - Len(AppPart(name)) - 1)

\* C23: toApigatewayAppCreationRequest returns a request exactly when the os is
\* iOS, Android, Windows or Linux, the platform is React-Native, Cordova or
\* Electron and the display name (what follows the first "/" of the name, or the
\* whole name) is a valid name of 1 to 1000 characters; it throws a Conflict
\* error (409) otherwise.  The request's display_name is that display name and
\* its org is what precedes the first "/", or null when there is none.
C23_AppCreationRequestValidated ==
    mapping.fn = "toApigatewayAppCreationRequest" =>
        IF /\ mapping.arg.os \in ValidOs
           /\ mapping.arg.platform \in ValidPlatforms
           /\ ValidName(AppPart(mapping.arg.name))
        THEN /\ ~mapping.returned.threw
             /\ mapping.returned.value.appcenterClientApp.display_name = AppPart(mapping.arg.name)
             /\ IF Qualified(mapping.arg.name)
                THEN /\ ~mapping.returned.value.org.isNull
                     /\ mapping.returned.value.org.text = OrgPart(mapping.arg.name)
                ELSE mapping.returned.value.org.isNull
        ELSE /\ mapping.returned.threw
             /\ mapping.returned.value.statusCode = ERROR_CONFLICT

C23_Witness ==
    /\ mapping.fn = "toApigatewayAppCreationRequest"
    /\ mapping.arg = [name |-> <<"o", "/", "a">>, os |-> "iOS", platform |-> "Cordova"]
    /\ ~mapping.returned.threw
    /\ mapping.returned.value.org.text = <<"o">>
    /\ mapping.returned.value.appcenterClientApp.display_name = <<"a">>

\* C24: the payload toRestReleaseModification builds from a PackageInfo has a
\* field exactly when the corresponding field of the PackageInfo is set, with its
\* value (appVersion as target_binary_range, isDisabled as is_disabled,
\* isMandatory as is_mandatory, description, rollout, label); every other field is
\* absent.
C24_ReleaseModificationCopiesSetFields ==
    mapping.fn = "toRestReleaseModification" =>
        /\ mapping.returned.value.target_binary_range = mapping.arg.appVersion
        /\ mapping.returned.value.is_disabled = mapping.arg.isDisabled
        /\ mapping.returned.value.is_mandatory = mapping.arg.isMandatory
        /\ mapping.returned.value.description = mapping.arg.description
        /\ mapping.returned.value.rollout = mapping.arg.rollout
        /\ mapping.returned.value.label = mapping.arg.label

\* C26: for a new name that is valid and has no "/", and an existing app that
\* was fetched, getRenamedApp returns a payload whose name is the new name and
\* whose display_name is the new name when the existing app's display_name is
\* its name, and is absent otherwise.
C26_RenamedAppPayload ==
    (/\ mapping.fn = "getRenamedApp"
     /\ ~mapping.arg.failed
     /\ ~Qualified(mapping.arg.newName)
     /\ ValidName(mapping.arg.newName)) =>
        LET app == mapping.arg.app
            same == app.display_name.defined /\ app.display_name.text = app.name
        IN  /\ ~mapping.returned.threw
            /\ mapping.returned.value.name = mapping.arg.newName
            /\ mapping.returned.value.display_name.defined = same
            /\ same => mapping.returned.value.display_name.text = mapping.arg.newName

C26_Witness ==
    /\ mapping.fn = "getRenamedApp"
    /\ ~mapping.arg.failed
    /\ mapping.arg.newName = <<"b">>
    /\ mapping.arg.app.name = <<"a">>
    /\ mapping.arg.app.display_name = [defined |-> TRUE, text |-> <<"D">>]
    /\ mapping.returned = Returned([name |-> <<"b">>,
                                    display_name |-> [defined |-> FALSE, text |-> << >>]])

-----------------------------------------------------------------------------
(* Request executor *)

\* the answer is a response with a 2xx status
Is2xx(res) == ~res.err /\ res.ok

\* C27: on a 2xx response makeApiRequest rejects with status 500 when a body is
\* expected and the text of the response does not parse as JSON, and resolves in
\* every other case; on any other answer it rejects with a message and a status.
C27_SettlementOfRequest ==
    mapping.fn = "makeApiRequest" =>
        LET res == mapping.arg.res
            settled == mapping.returned.value
        IN  IF Is2xx(res)
            THEN IF mapping.arg.expectResponseBody /\ res.body = "undefined"
                 THEN ~settled.ok /\ settled.error.statusCode = ERROR_INTERNAL_SERVER
                 ELSE settled.ok
            ELSE ~settled.ok /\ settled.error.statusCode # 0

-----------------------------------------------------------------------------
(* Joins *)

\* getApp has reached toLegacyApp: after the lookup of the name and the GET of
\* the app, the current-user lookup and the fetch of the deployments were issued
JoinedGetApp == op.name = "getApp" /\ Len(log) = 4

\* C28: toLegacyApp settles once for its two calls: getApp resolves with the
\* mapped App exactly when the current-user lookup and the fetch of the
\* deployments both succeeded, and is rejected with the error of a call that
\* failed otherwise, whichever of the two settled first.
C28_AppJoinsUserAndDeployments ==
    JoinedGetApp =>
        /\ pc = "done"
        /\ log[3].method = "get" /\ log[3].path = UserPath
        /\ log[4].method = "get"
        /\ log[4].path = AppPath(params.appOwner, params.appName) \o <<"/", "deployments", "/">>
        /\ IF log[3].ok /\ log[4].ok
           THEN result = Resolved("mapped")
           ELSE /\ result.kind = "rejected"
                /\ \E i \in {3, 4} : ~log[i].ok /\ result.error = log[i].error

C28_Witness ==
    /\ JoinedGetApp
    /\ log[3].ok
    /\ ~log[4].ok
    /\ log[4].status = ERROR_NOT_FOUND
    /\ result = Rejected([message |-> "Text", statusCode |-> ERROR_NOT_FOUND])

\* the requests of a call of toLegacyApps: whether the current-user lookup
\* succeeded, for which app each fetch was issued, what each was answered, which
\* was answered first
Fetches == mapping.arg.fetches

\* C29: when the current-user lookup and every fetch of deployments succeeded,
\* toLegacyApps returns one App per app given, in the order owner then name,
\* each with the deployment names its own fetch was answered, whatever the order
\* of the answers; when the lookup or a fetch failed the call is rejected and
\* returns no list.  While a fetch is in flight nothing is returned.
C29_AppsJoinTheirOwnFetches ==
    /\ mapping.fn = "toLegacyApps fetching" => mapping.returned = << >>
    /\ mapping.fn = "toLegacyApps settled" =>
          LET given == mapping.arg.apps
              n == Len(given)
          IN  IF /\ Fetches.userOk
                 /\ \A i \in 1..n : /\ ~Fetches.fetched[i].threw
                                     /\ Fetches.fetched[i].value \in DeploymentLists
              THEN /\ ~mapping.returned.threw
                   /\ Len(mapping.returned.value) = n
                   /\ OrderedByOwnerThenName(Fetches.issued)
                   /\ \A a \in Range(given) :
                         Count(Fetches.issued, {a}) = Count(given, {a})
                   /\ \A i \in 1..n :
                         mapping.returned.value[i]
                             = toLegacyRestApp(Fetches.issued[i], mapping.arg.user,
                                               Fetches.fetched[i].value)
              ELSE mapping.returned.threw

\* the second fetch was answered first, with other names than the first fetch
C29_Witness ==
    /\ mapping.fn = "toLegacyApps settled"
    /\ ~mapping.returned.threw
    /\ Len(mapping.arg.apps) = 2
    /\ mapping.arg.apps[1].owner.id = "u2"
    /\ mapping.arg.apps[2].owner.id = "u1"
    /\ Fetches.first = 2
    /\ mapping.returned.value[1].name = <<"a">>
    /\ mapping.returned.value[1].deployments = <<"Staging">>
    /\ mapping.returned.value[2].name = <<"B", "/", "a">>
    /\ mapping.returned.value[2].deployments = <<"Production", "Staging">>

-----------------------------------------------------------------------------
(* Standard deployments of a new app *)

\* the requests of the log that create a deployment
DeploymentPosts ==
    {i \in 1..Len(log) :
        /\ log[i].method = "post"
        /\ Len(log[i].path) >= 3
        /\ SubSeq(log[i].path, Len(log[i].path) - 2, Len(log[i].path))
              = <<"/", "deployments", "/">>}

\* the creation POST of addApp was sent first and has succeeded
AppCreated ==
    /\ log # << >>
    /\ log[1].method = "post"
    /\ log[1].path = AddAppPath(getOrgFromLegacyAppRequest(op.app))
    /\ log[1].ok

\* C30: in addApp a deployment is requested only after the creation POST has
\* succeeded and only when manuallyProvisionDeployments is false (or omitted);
\* the two requests are those of 'Staging' and 'Production', issued together, and
\* for a name org/app both are addressed to /apps/{org}/{app}/deployments/.  An
\* addApp that resolved without the flag has requested both.
C30_StandardDeploymentsAfterCreation ==
    op.name = "addApp" =>
        /\ \A i \in DeploymentPosts :
              /\ i > 1
              /\ AppCreated
              /\ op.flag \in {"omitted", "false"}
              /\ Qualified(op.app) =>
                    log[i].path = <<"/", "apps", "/">> \o OrgPart(op.app) \o <<"/">>
                                     \o AppPart(op.app) \o <<"/", "deployments", "/">>
        /\ DeploymentPosts # {} =>
              /\ DeploymentPosts = {Len(log) - 1, Len(log)}
              /\ log[Len(log) - 1].body = "Staging"
              /\ log[Len(log)].body = "Production"
        /\ (~AppCreated \/ op.flag = "true") => DeploymentPosts = {}
        /\ (pc = "done" /\ result.kind = "resolved" /\ op.flag # "true") =>
              DeploymentPosts # {}

\* addApp of a/a by the user u without the flag: the creation POST to the org,
\* the current-user lookup, then the two deployments of the org's app
C30_Witness ==
    /\ op.name = "addApp"
    /\ op.app = <<"a", "/", "a">>
    /\ op.flag = "false"
    /\ user.name = <<"u">>
    /\ result.kind = "resolved"
    /\ Len(log) = 4
    /\ log[1].path = <<"/", "orgs", "/", "a", "/", "apps">>
    /\ log[1].ok
    /\ log[3].path = <<"/", "apps", "/", "a", "/", "a", "/", "deployments", "/">>
    /\ log[3].body = "Staging"
    /\ log[4].path = log[3].path
    /\ log[4].body = "Production"

-----------------------------------------------------------------------------
(* Access key *)

\* C25: a constructor called without an access key (undefined or empty) throws
\* an Unauthorized error (401) and leaves no manager; every request was issued
\* by a manager that was constructed with an access key.
C25_NoRequestWithoutAccessKey ==
    /\ accessKey \in {Undefined, ""} =>
          /\ pc = "new"
          /\ result.kind = "thrown"
          /\ result.error.statusCode = ERROR_UNAUTHORIZED
          /\ log = << >>
    /\ (log # << >> \/ pc # "new") => accessKey = "key"

C25_Witness ==
    /\ accessKey = ""
    /\ pc = "new"
    /\ result = Thrown(CodePushUnauthorizedError)
    /\ log = << >>

=============================================================================
